---- MODULE Spec2Model ----
(***************************************************************************)
(* A model of lbshared.delayed_queue (store_event, index_events,           *)
(* delete_event, consume_events) together with lbshared.signal_helper      *)
(* (delay_signals).  The relational table `delayed_queue` is modelled as a  *)
(* set of committed rows plus, per connection, the uncommitted changes of   *)
(* its open transaction (READ COMMITTED, row locks on DELETE).  The Arango  *)
(* collection `delayed_queue` is a map from document key to body.  Every    *)
(* database statement, document request and signal.signal call is one       *)
(* step, so that callers interleave between any two of them.                *)
(***************************************************************************)
EXTENDS Integers, Sequences, FiniteSets, TLC

\* ------------------------------------------------------------------ bounds
MaxInit == 2      \* events present before the first call have uuids 1..MaxInit
MaxFresh == 2     \* number of uuids uuid.uuid4() may hand out in one behaviour
MaxTime == 1      \* event times are 0..MaxTime, clock readings 0..MaxTime+1
MaxLimit == 2     \* `limit` arguments are 1..MaxLimit
MaxSignals == 2   \* signals sent to one process in one behaviour
MaxDepth == 2     \* delay_signals blocks nested in one another
MaxTokens == 2    \* max_tokens of the ratelimit settings; amt is 1..MaxTokens+1
MaxElapsed == 3   \* clock ticks that pass while ratelimits or retry_helper run

\* ------------------------------------------------------------------ values
Procs == {1, 2}                 \* independent callers, one LazyIntegrations each
QueueTypes == {0, 1}            \* queue_type values of rows
QUEUE_TYPES == {0}              \* the queue types callers pass ('trust': 0)
Times == 0 .. MaxTime
Clock == 0 .. (MaxTime + 1)
NoTime == -1                    \* before_time=None / after_time=None
Limits == 1 .. MaxLimit
Payloads == {"a", "b"}          \* event bodies
NoDoc == "None"                 \* read_doc found nothing (Python None)
NoUuid == 0                     \* Python None where a uuid is expected
InitUuids == 1 .. MaxInit
Signals == {"SIGINT", "SIGTERM"}
Orders == {"asc", "desc"}
Policies == {"include", "delete_and_commit", "bogus"}

Row(u, qt, at) == [uuid |-> u, queue_type |-> qt, event_at |-> at]
Range(s) == {s[i] : i \in 1 .. Len(s)}
Min(a, b) == IF a < b THEN a ELSE b

VARIABLES
    table,      \* committed rows of table delayed_queue
    stored,     \* uuids of all rows ever committed (history)
    txn,        \* per connection: rows inserted / deleted, not yet committed
    docs,       \* Arango collection delayed_queue: key -> body or NoDoc
    collExists, \* whether the Arango collection has been created
    nextUuid,   \* the next value uuid.uuid4() returns
    clock,      \* the latest reading of datetime.now()
    pc,         \* per caller: the statement it executes next
    caller,     \* per caller: "top" or "consume" (who called the running function)
    se,         \* per caller: frame of store_event
    ie,         \* per caller: frame of index_events
    de,         \* per caller: frame of delete_event
    ce,         \* per caller: frame of consume_events
    ds,         \* per caller: frame of delay_signals
    sigH,       \* per caller: installed handler of each signal (0: the previous one)
    delivered,  \* per caller: signals the previous handlers received, in order
    sigCount,   \* per caller: signals sent so far
    hist,       \* per caller: calls made and returned, handler/rollback invocations
    calls,      \* per caller: top-level calls still to make
    nest,       \* per caller: frames of the delay_signals blocks it has nested
    tokColl,    \* whether the Arango collection of ratelimit tokens exists
    tokDoc,     \* the consumer's document in that collection, with its revision
    rl,         \* per caller: frame of ratelimits.consume and _consume
    file,       \* last_started_at in the file .retry_helper, NoTime without file
    rh          \* per caller: frame of retry_helper.handle

dbVars == <<table, stored, txn, docs, collExists, nextUuid, clock>>
frameVars == <<se, ie, de, ce>>
sigVars == <<ds, sigH, delivered, sigCount>>
extVars == <<nest, tokColl, tokDoc, rl, file, rh>>
vars == <<table, stored, txn, docs, collExists, nextUuid, clock, pc, caller,
          se, ie, de, ce, ds, sigH, delivered, sigCount, hist, calls,
          nest, tokColl, tokDoc, rl, file, rh>>

\* ------------------------------------------------------------ the database
NoTxn == [ins |-> {}, del |-> {}]

\* Rows a statement of connection p sees: committed rows and its own changes.
Visible(p) == (table \ txn[p].del) \cup txn[p].ins

\* conn.commit(): the transaction's changes become the committed state.
Commit(p) ==
    /\ table' = (table \ txn[p].del) \cup txn[p].ins
    /\ stored' = stored \cup {r.uuid : r \in txn[p].ins}
    /\ txn' = [txn EXCEPT ![p] = NoTxn]

\* A DELETE waits while another transaction holds an uncommitted delete of
\* a row it targets.
DeleteBlocked(p, u) ==
    \E q \in Procs \ {p} : \E r \in txn[q].del : r.uuid = u

\* Variant: a DELETE whose WHERE clause matches no row.
DeleteStmt_nothing(p, u) == txn

\* DELETE FROM delayed_queue WHERE uuid = u, as a change of p's transaction.
DeleteStmt(p, u) ==
    LET hit == {r \in Visible(p) : r.uuid = u}
    IN  [txn EXCEPT ![p] = [ins |-> @.ins \ hit,
                            del |-> @.del \cup (hit \cap table)]]

\* ------------------------------------------------------------ history
\* One entry: `ret` is a returned uuid, `flag` a returned or passed boolean,
\* `ctx` the context dict (the policy, for index_events), `exc` the exception
\* raised, `result` a returned list, the rest the arguments of index_events
\* and the rows its query fetched (`selected`).
H(kind, u, qt, at, body) ==
    [ev |-> kind, uuid |-> u, queue_type |-> qt, event_at |-> at,
     body |-> body, ret |-> NoUuid, flag |-> FALSE, ctx |-> "", exc |-> "",
     result |-> <<>>, limit |-> 0, before |-> NoTime, after |-> NoTime,
     order |-> "", selected |-> <<>>]

Log(p, e) == hist' = [hist EXCEPT ![p] = Append(@, e)]

\* ------------------------------------------------------------ frames
NoSe == [queue_type |-> 0, event_at |-> 0, event |-> NoDoc, commit |-> FALSE,
         event_uuid |-> NoUuid]
NoIe == [queue_type |-> 0, limit |-> 1, before_time |-> NoTime,
         after_time |-> NoTime, order |-> "asc", integrity_failures |-> "include",
         unaugmented |-> <<>>, i |-> 1, result |-> <<>>,
         commit_required |-> FALSE]
NoDe == [event_uuid |-> NoUuid, commit |-> FALSE, success |-> FALSE]
NoCe == [queue_type |-> 0, limit |-> 1, past_due_events |-> <<>>, i |-> 1,
         context |-> "", exc |-> ""]
NoDs == [old_sigint |-> 0, old_sigterm |-> 0,
         captured_sigint |-> FALSE, captured_sigterm |-> FALSE]
NoRl == [amt |-> 0, strict |-> FALSE, max_tokens |-> 0, i |-> 0,
         existed |-> FALSE, rev |-> 0,
         tokens |-> 0, last_refill |-> 0, cur_time |-> 0, consumed |-> FALSE]
NoTok == [exists |-> FALSE, rev |-> 0, tokens |-> 0, last_refill |-> 0,
          expires |-> 0]
NoRh == [time_between_restarts |-> 0, last_open_at |-> NoTime,
         time_since_opened |-> 0, slept |-> FALSE, wake |-> 0]

\* Variant: the claim is left in the open transaction.
ClaimCommit_off == FALSE

\* The commit argument of the claiming delete_event, line 286.
ClaimCommit == TRUE

\* Head of the loop of consume_events at line 285, reached with the batch
\* `events` and the history h: event i is claimed with delete_event(itgs,
\* ev_uuid, commit=True) (line 286), or the batch is over and the function
\* returns.
LoopHead(p, events, i, h) ==
    IF i > Len(events)
       THEN /\ hist' = [hist EXCEPT ![p] =
                          Append(h, H("consume_events", NoUuid, ce[p].queue_type,
                                      0, NoDoc))]
            /\ pc' = [pc EXCEPT ![p] = "idle"]
            /\ de' = [de EXCEPT ![p] = NoDe]
            /\ ce' = [ce EXCEPT ![p] = NoCe]
       ELSE /\ hist' = [hist EXCEPT ![p] = h]
            /\ de' = [de EXCEPT ![p] = [event_uuid |-> events[i][1],
                                        commit |-> ClaimCommit, success |-> FALSE]]
            /\ pc' = [pc EXCEPT ![p] = "de_delete"]
            /\ ce' = [ce EXCEPT ![p].past_due_events = events, ![p].i = i]

\* ------------------------------------------------------------ store_event
\* Variant: the identifier that was handed out last.
uuid4_reused == nextUuid - 1

\* uuid.uuid4(): a value no earlier call returned.
uuid4 == nextUuid

\* What store_event hands back to its caller: the function has no return
\* statement.
store_event_result(f) == NoUuid

\* Variant: the request is acknowledged but the document is not written.
create_or_overwrite_doc_lost(d, key, body) == d

\* coll.create_or_overwrite_doc(key, body), lines 61 and 64.
create_or_overwrite_doc(d, key, body) == [d EXCEPT ![key] = body]

\* Variant: the insert is committed whatever `commit` says.
Finalizes_always(commit) == TRUE

\* `if commit: itgs.write_conn.commit()`, lines 74-75.
Finalizes(commit) == commit

\* Entering store_event: line 57 draws the uuid.
EnterStore(p, qt, at, ev, commit) ==
    /\ nextUuid <= MaxInit + MaxFresh
    /\ se' = [se EXCEPT ![p] = [queue_type |-> qt, event_at |-> at, event |-> ev,
                                commit |-> commit, event_uuid |-> uuid4]]
    /\ nextUuid' = nextUuid + 1
    /\ pc' = [pc EXCEPT ![p] = "se_write"]

\* Leaving store_event: to its caller, or to line 302 of consume_events,
\* whose bare `raise` re-raises the handler's exception out of the with block.
ReturnStore(p) ==
    /\ Log(p, [H("store_event", se[p].event_uuid, se[p].queue_type,
                  se[p].event_at, se[p].event)
                EXCEPT !.ret = store_event_result(se[p]),
                       !.flag = se[p].commit])
    /\ se' = [se EXCEPT ![p] = NoSe]
    /\ IF caller[p] = "consume"
          THEN /\ ce' = [ce EXCEPT ![p].exc = "handler failed"]
               /\ pc' = [pc EXCEPT ![p] = "ds_restore_int"]
          ELSE /\ ce' = ce
               /\ pc' = [pc EXCEPT ![p] = "idle"]

call_store_event(p) ==
    /\ pc[p] = "idle" /\ calls[p] > 0
    /\ \E qt \in QUEUE_TYPES, at \in Times, ev \in Payloads, commit \in BOOLEAN :
          EnterStore(p, qt, at, ev, commit)
    /\ calls' = [calls EXCEPT ![p] = @ - 1]
    /\ caller' = [caller EXCEPT ![p] = "top"]
    /\ UNCHANGED <<table, stored, txn, docs, collExists, clock, ie, de, ce, sigVars, hist>>
    /\ UNCHANGED extVars

\* coll.create_or_overwrite_doc(event_uuid, event), line 61; HTTPError when
\* the collection does not exist.
se_write(p) ==
    /\ pc[p] = "se_write"
    /\ IF collExists
          THEN /\ docs' = create_or_overwrite_doc(docs, se[p].event_uuid, se[p].event)
               /\ pc' = [pc EXCEPT ![p] = "se_insert"]
          ELSE /\ docs' = docs
               /\ pc' = [pc EXCEPT ![p] = "se_create"]
    /\ UNCHANGED <<table, stored, txn, collExists, nextUuid, clock, caller, frameVars,
                   sigVars, hist, calls>>
    /\ UNCHANGED extVars

\* coll.create_if_not_exists(ttl=31622400), line 63.
se_create(p) ==
    /\ pc[p] = "se_create"
    /\ collExists' = TRUE
    /\ pc' = [pc EXCEPT ![p] = "se_retry"]
    /\ UNCHANGED <<table, stored, txn, docs, nextUuid, clock, caller, frameVars,
                   sigVars, hist, calls>>
    /\ UNCHANGED extVars

\* The second coll.create_or_overwrite_doc(event_uuid, event), line 64.
se_retry(p) ==
    /\ pc[p] = "se_retry"
    /\ collExists
    /\ docs' = create_or_overwrite_doc(docs, se[p].event_uuid, se[p].event)
    /\ pc' = [pc EXCEPT ![p] = "se_insert"]
    /\ UNCHANGED <<table, stored, txn, collExists, nextUuid, clock, caller, frameVars,
                   sigVars, hist, calls>>
    /\ UNCHANGED extVars

\* INSERT INTO delayed_queue (uuid, queue_type, event_at), lines 66-73;
\* without commit the function returns here.
se_insert(p) ==
    /\ pc[p] = "se_insert"
    /\ txn' = [txn EXCEPT ![p].ins =
                  @ \cup {Row(se[p].event_uuid, se[p].queue_type, se[p].event_at)}]
    /\ IF Finalizes(se[p].commit)
          THEN /\ pc' = [pc EXCEPT ![p] = "se_commit"]
               /\ UNCHANGED <<hist, se, ce>>
          ELSE ReturnStore(p)
    /\ UNCHANGED <<table, stored, docs, collExists, nextUuid, clock, caller, ie, de,
                   sigVars, calls>>
    /\ UNCHANGED extVars

\* itgs.write_conn.commit(), lines 74-75, then the function returns.
se_commit(p) ==
    /\ pc[p] = "se_commit"
    /\ Commit(p)
    /\ ReturnStore(p)
    /\ UNCHANGED <<docs, collExists, nextUuid, clock, caller, ie, de,
                   sigVars, calls>>
    /\ UNCHANGED extVars

\* ------------------------------------------------------------ index_events
\* Variant: a WHERE clause with inclusive time bounds.
Matching_inclusive(rows, qt, before, after) ==
    {r \in rows : /\ r.queue_type = qt
                  /\ (before # NoTime => r.event_at <= before)
                  /\ (after # NoTime => r.event_at >= after)}

\* Variant: a WHERE clause without the queue_type condition.
Matching_anyqueue(rows, qt, before, after) ==
    {r \in rows : /\ (before # NoTime => r.event_at < before)
                  /\ (after # NoTime => r.event_at > after)}

\* The WHERE clause built at lines 141-152.
Matching(rows, qt, before, after) ==
    {r \in rows : /\ r.queue_type = qt
                  /\ (before # NoTime => r.event_at < before)
                  /\ (after # NoTime => r.event_at > after)}

\* Variant: the order argument is ignored, rows come oldest first.
InOrder_asc(order, r, s) == r.event_at <= s.event_at

\* ORDER BY event_at <order>: r may come before s.
InOrder(order, r, s) ==
    IF order = "asc" THEN r.event_at <= s.event_at ELSE r.event_at >= s.event_at

\* ORDER BY event_at <order> LIMIT <limit>: every list the query may return
\* (rows of equal event_at come in any order).
SelectResults(rows, order, limit) ==
    LET n == Min(limit, Cardinality(rows))
    IN  {s \in [1 .. n -> rows] :
            /\ \A i, j \in 1 .. n : i < j => s[i] # s[j] /\ InOrder(order, s[i], s[j])
            /\ \A r \in rows \ Range(s) : \A i \in 1 .. n : InOrder(order, s[i], r)}

\* Variant: 'include' treated like 'delete_and_commit'.
OnMissing_delete(policy) == IF policy = "bogus" THEN "raise" ELSE "delete"

\* Variant: 'delete_and_commit' treated like 'include'.
OnMissing_append(policy) == IF policy = "bogus" THEN "raise" ELSE "append"

\* What the loop body does with a selected row whose document is missing,
\* lines 165-178.
OnMissing(policy) ==
    CASE policy = "include" -> "append"
      [] policy = "delete_and_commit" -> "delete"
      [] OTHER -> "raise"

EnterIndex(p, qt, limit, before, after, order, policy) ==
    /\ ie' = [ie EXCEPT ![p] = [NoIe EXCEPT !.queue_type = qt, !.limit = limit,
                                  !.before_time = before, !.after_time = after,
                                  !.order = order, !.integrity_failures = policy]]
    /\ pc' = [pc EXCEPT ![p] = "ie_select"]

\* `return result`, line 185: to the caller, or to consume_events, which
\* starts its loop over past_due_events.
ReturnIndex(p, result) ==
    LET h == Append(hist[p], [H("index_events", NoUuid, ie[p].queue_type, 0, NoDoc)
                               EXCEPT !.result = result,
                                      !.ctx = ie[p].integrity_failures,
                                      !.limit = ie[p].limit,
                                      !.before = ie[p].before_time,
                                      !.after = ie[p].after_time,
                                      !.order = ie[p].order,
                                      !.selected = ie[p].unaugmented])
    IN  /\ ie' = [ie EXCEPT ![p] = NoIe]
        /\ IF caller[p] = "consume"
              THEN LoopHead(p, result, 1, h)
              ELSE /\ hist' = [hist EXCEPT ![p] = h]
                   /\ pc' = [pc EXCEPT ![p] = "idle"]
                   /\ UNCHANGED <<ce, de>>

\* After one row of the loop at line 163: the next row, the commit, or return.
IndexAdvance(p, f) ==
    IF f.i < Len(f.unaugmented)
       THEN /\ ie' = [ie EXCEPT ![p] = [f EXCEPT !.i = f.i + 1]]
            /\ pc' = [pc EXCEPT ![p] = "ie_read"]
            /\ UNCHANGED <<ce, de, hist>>
       ELSE IF f.commit_required
               THEN /\ ie' = [ie EXCEPT ![p] = f]
                    /\ pc' = [pc EXCEPT ![p] = "ie_commit"]
                    /\ UNCHANGED <<ce, de, hist>>
               ELSE ReturnIndex(p, f.result)

\* itgs.read_cursor.execute(query) and fetchall(), lines 154-158.
ie_select(p) ==
    /\ pc[p] = "ie_select"
    /\ \E s \in SelectResults(Matching(Visible(p), ie[p].queue_type,
                                       ie[p].before_time, ie[p].after_time),
                              ie[p].order, ie[p].limit) :
          IF Len(s) = 0
             THEN ReturnIndex(p, <<>>)
             ELSE /\ ie' = [ie EXCEPT ![p].unaugmented =
                              [i \in 1 .. Len(s) |-> <<s[i].uuid, s[i].event_at>>]]
                  /\ pc' = [pc EXCEPT ![p] = "ie_read"]
                  /\ UNCHANGED <<ce, de, hist>>
    /\ UNCHANGED <<dbVars, caller, se, sigVars, calls>>
    /\ UNCHANGED extVars

\* One pass of the loop body up to the DELETE: coll.read_doc(ev_uuid) and
\* the branch on its result, lines 164-180.
ie_read(p) ==
    /\ pc[p] = "ie_read"
    /\ LET row == ie[p].unaugmented[ie[p].i]
           event == docs[row[1]]
           todo == IF event # NoDoc THEN "append"
                   ELSE OnMissing(ie[p].integrity_failures)
       IN  CASE todo = "append" ->
                  IndexAdvance(p, [ie[p] EXCEPT !.result =
                      Append(@, <<row[1], row[2], event>>)])
             [] todo = "delete" ->
                  /\ pc' = [pc EXCEPT ![p] = "ie_delete"]
                  /\ UNCHANGED <<ie, ce, de, hist>>
             [] OTHER ->
                  /\ Log(p, [H("index_events", NoUuid, ie[p].queue_type, 0, NoDoc)
                              EXCEPT !.exc = "bad integrity failure technique",
                                     !.ctx = ie[p].integrity_failures])
                  /\ pc' = [pc EXCEPT ![p] = "idle"]
                  /\ ie' = [ie EXCEPT ![p] = NoIe]
                  /\ UNCHANGED <<ce, de>>
    /\ UNCHANGED <<dbVars, caller, se, sigVars, calls>>
    /\ UNCHANGED extVars

\* itgs.write_cursor.execute(DELETE ... WHERE uuid = ev_uuid), lines 169-176.
ie_delete(p) ==
    /\ pc[p] = "ie_delete"
    /\ LET row == ie[p].unaugmented[ie[p].i]
       IN  /\ ~DeleteBlocked(p, row[1])
           /\ txn' = DeleteStmt(p, row[1])
           /\ IndexAdvance(p, [ie[p] EXCEPT !.commit_required = TRUE])
    /\ UNCHANGED <<table, stored, docs, collExists, nextUuid, clock, caller, se,
                   sigVars, calls>>
    /\ UNCHANGED extVars

\* itgs.write_conn.commit() at line 183, then return.
ie_commit(p) ==
    /\ pc[p] = "ie_commit"
    /\ Commit(p)
    /\ ReturnIndex(p, ie[p].result)
    /\ UNCHANGED <<docs, collExists, nextUuid, clock, caller, se, sigVars, calls>>
    /\ UNCHANGED extVars

call_index_events(p) ==
    /\ pc[p] = "idle" /\ calls[p] > 0
    /\ \E qt \in QUEUE_TYPES, limit \in Limits, before \in Clock \cup {NoTime},
          after \in Times \cup {NoTime}, order \in Orders, policy \in Policies :
          EnterIndex(p, qt, limit, before, after, order, policy)
    /\ calls' = [calls EXCEPT ![p] = @ - 1]
    /\ caller' = [caller EXCEPT ![p] = "top"]
    /\ UNCHANGED <<dbVars, se, de, ce, sigVars, hist>>
    /\ UNCHANGED extVars

\* ------------------------------------------------------------ delete_event
\* Variant: success tells whether the document was there.
DeleteSuccess_doc(p, u) == docs[u] # NoDoc

\* Variant: success without looking at what the DELETE returned.
DeleteSuccess_always(p, u) == TRUE

\* `fetchone() is not None` for DELETE ... RETURNING id, line 224.
DeleteSuccess(p, u) == \E r \in Visible(p) : r.uuid = u

\* Variant: the document is left in the collection.
force_delete_doc_keep(d, u) == d

\* collection.force_delete_doc(key), line 229.
force_delete_doc(d, u) == [d EXCEPT ![u] = NoDoc]

\* Variant: the test of delete_event's result is inverted.
SkipEvent_inverted(success) == success

\* Variant: the result of delete_event is ignored.
SkipEvent_never(success) == FALSE

\* `if not delete_event(...): continue`, lines 286-288.
SkipEvent(success) == ~success

call_delete_event(p) ==
    /\ pc[p] = "idle" /\ calls[p] > 0
    /\ \E u \in 1 .. (nextUuid - 1), commit \in BOOLEAN :
          de' = [de EXCEPT ![p] = [event_uuid |-> u, commit |-> commit,
                                    success |-> FALSE]]
    /\ pc' = [pc EXCEPT ![p] = "de_delete"]
    /\ calls' = [calls EXCEPT ![p] = @ - 1]
    /\ caller' = [caller EXCEPT ![p] = "top"]
    /\ UNCHANGED <<dbVars, se, ie, ce, sigVars, hist>>
    /\ UNCHANGED extVars

\* DELETE ... WHERE uuid = event_uuid RETURNING id, and fetchone(), 216-224.
de_delete(p) ==
    /\ pc[p] = "de_delete"
    /\ ~DeleteBlocked(p, de[p].event_uuid)
    /\ de' = [de EXCEPT ![p].success = DeleteSuccess(p, de[p].event_uuid)]
    /\ txn' = DeleteStmt(p, de[p].event_uuid)
    /\ pc' = [pc EXCEPT ![p] = IF de[p].commit THEN "de_commit" ELSE "de_force"]
    /\ UNCHANGED <<table, stored, docs, collExists, nextUuid, clock, caller, se, ie, ce,
                   sigVars, hist, calls>>
    /\ UNCHANGED extVars

\* itgs.write_conn.commit(), lines 226-227.
de_commit(p) ==
    /\ pc[p] = "de_commit"
    /\ Commit(p)
    /\ pc' = [pc EXCEPT ![p] = "de_force"]
    /\ UNCHANGED <<docs, collExists, nextUuid, clock, caller, frameVars,
                   sigVars, hist, calls>>
    /\ UNCHANGED extVars

\* force_delete_doc(event_uuid) and `return success`, lines 229-230: to the
\* caller, or to line 286 of consume_events, which skips the event or enters
\* delay_signals (line 290; _get_delayed_handlers, line 24).
de_force(p) ==
    /\ pc[p] = "de_force"
    /\ docs' = force_delete_doc(docs, de[p].event_uuid)
    /\ LET h == Append(hist[p], [H("delete_event", de[p].event_uuid, 0, 0, NoDoc)
                                  EXCEPT !.flag = de[p].success,
                                         !.ctx = IF de[p].commit THEN "commit"
                                                 ELSE ""])
       IN  IF caller[p] # "consume"
              THEN /\ hist' = [hist EXCEPT ![p] = h]
                   /\ pc' = [pc EXCEPT ![p] = "idle"]
                   /\ de' = [de EXCEPT ![p] = NoDe]
                   /\ UNCHANGED <<ce, ds>>
              ELSE IF SkipEvent(de[p].success)
                      THEN /\ LoopHead(p, ce[p].past_due_events, ce[p].i + 1, h)
                           /\ ds' = ds
                      ELSE /\ hist' = [hist EXCEPT ![p] = h]
                           /\ pc' = [pc EXCEPT ![p] = "ds_sigint"]
                           /\ de' = [de EXCEPT ![p] = NoDe]
                           /\ ds' = [ds EXCEPT ![p] = NoDs]
                           /\ ce' = ce
    /\ UNCHANGED <<table, stored, txn, collExists, nextUuid, clock, caller, se, ie,
                   sigH, delivered, sigCount, calls>>
    /\ UNCHANGED extVars

\* ------------------------------------------------------------ signals
\* The capture handlers of _get_delayed_handlers are handler 1; handler 0 is
\* whatever was installed before delay_signals.
CaptureHandler == 1

\* Python runs the installed handler of signal s in process p: a capture
\* handler sets its flag (lines 46-54), the previous handler receives it.
Deliver(p, s) ==
    IF sigH[p][s] = CaptureHandler
       THEN /\ ds' = [ds EXCEPT ![p] =
                        IF s = "SIGINT" THEN [@ EXCEPT !.captured_sigint = TRUE]
                                        ELSE [@ EXCEPT !.captured_sigterm = TRUE]]
            /\ delivered' = delivered
       ELSE /\ delivered' = [delivered EXCEPT ![p] = Append(@, s)]
            /\ ds' = ds

\* The operating system sends a signal to p while p runs a call.
Signal(p) ==
    /\ pc[p] # "idle"
    /\ sigCount[p] < MaxSignals
    /\ \E s \in Signals : Deliver(p, s)
    /\ sigCount' = [sigCount EXCEPT ![p] = @ + 1]
    /\ UNCHANGED <<dbVars, pc, caller, frameVars, sigH, hist, calls>>
    /\ UNCHANGED extVars

\* Variant: callback re-raises nothing.
Reraised_none(f) == "none"

\* Variant: callback tests captured_sigint first.
Reraised_sigint_first(f) ==
    IF f.captured_sigint THEN "SIGINT"
    ELSE IF f.captured_sigterm THEN "SIGTERM" ELSE "none"

\* callback() of _get_delayed_handlers, lines 56-64: the signal to re-raise.
Reraised(f) ==
    IF f.captured_sigterm THEN "SIGTERM"
    ELSE IF f.captured_sigint THEN "SIGINT" ELSE "none"

\* ------------------------------------------------------------ consume_events
ContextMarks == {"", "partial"}   \* what handler may leave in the context dict

\* Variant: rollback gets a fresh dict.
RollbackContext_fresh(context) == ""

\* The context rollback receives, line 300.
RollbackContext(context) == context

\* Variant: the requeueing store_event is left uncommitted.
RequeueCommit_off == FALSE

\* The commit argument of the requeueing store_event, line 301.
RequeueCommit == TRUE

\* Variant: the requeue also follows a rollback that raised.
AfterRollback_always(outcome) == "store"

\* What follows rollback: the requeue when it returned, nothing when it raised.
AfterRollback(outcome) == IF outcome = "ok" THEN "store" ELSE "propagate"

CurEvent(p) == ce[p].past_due_events[ce[p].i]

\* consume_events(itgs, queue_type, limit, handler, rollback): lines 277-283
\* read the clock and call index_events.  The history notes the call, and
\* with `flag` whether another caller's consume_events had returned by then.
call_consume_events(p) ==
    /\ pc[p] = "idle" /\ calls[p] > 0
    /\ \E qt \in QUEUE_TYPES, limit \in Limits, now \in Clock :
          /\ now >= clock
          /\ clock' = now
          /\ ce' = [ce EXCEPT ![p] = [NoCe EXCEPT !.queue_type = qt, !.limit = limit]]
          /\ EnterIndex(p, qt, limit, now, NoTime, "asc", "delete_and_commit")
          /\ Log(p, [H("consume_call", NoUuid, qt, 0, NoDoc)
                      EXCEPT !.limit = limit,
                             !.flag = \E q \in Procs \ {p} :
                                         Len(hist[q]) > 0 /\ pc[q] = "idle"])
    /\ calls' = [calls EXCEPT ![p] = @ - 1]
    /\ caller' = [caller EXCEPT ![p] = "consume"]
    /\ UNCHANGED <<table, stored, txn, docs, collExists, nextUuid, se, de, sigVars>>
    /\ UNCHANGED extVars

\* old_sigint = signal.signal(signal.SIGINT, capture_sigint), line 36.
ds_sigint(p) ==
    /\ pc[p] = "ds_sigint"
    /\ ds' = [ds EXCEPT ![p].old_sigint = sigH[p]["SIGINT"]]
    /\ sigH' = [sigH EXCEPT ![p]["SIGINT"] = CaptureHandler]
    /\ pc' = [pc EXCEPT ![p] = "ds_sigterm"]
    /\ UNCHANGED <<dbVars, caller, frameVars, delivered, sigCount, hist, calls>>
    /\ UNCHANGED extVars

\* old_sigterm = signal.signal(signal.SIGTERM, capture_sigterm), line 37;
\* the with block starts: context = {} and handler(ev_uuid, ev_at, ev,
\* context) is entered, lines 291-293.
ds_sigterm(p) ==
    /\ pc[p] = "ds_sigterm"
    /\ ds' = [ds EXCEPT ![p].old_sigterm = sigH[p]["SIGTERM"]]
    /\ sigH' = [sigH EXCEPT ![p]["SIGTERM"] = CaptureHandler]
    /\ ce' = [ce EXCEPT ![p].context = ""]
    /\ Log(p, H("handler", CurEvent(p)[1], ce[p].queue_type, CurEvent(p)[2],
                CurEvent(p)[3]))
    /\ pc' = [pc EXCEPT ![p] = "in_handler"]
    /\ UNCHANGED <<dbVars, caller, se, ie, de, delivered, sigCount, calls>>
    /\ UNCHANGED extVars

\* handler returns or raises, having written what it likes to context; the
\* dict is read again only by rollback, so only a raising handler's mark is kept.
in_handler(p) ==
    /\ pc[p] = "in_handler"
    /\ \E outcome \in {"ok", "raise"}, mark \in ContextMarks :
          /\ (outcome = "ok" => mark = "")
          /\ ce' = [ce EXCEPT ![p].context = mark]
          /\ Log(p, [H(IF outcome = "ok" THEN "handler_ok" ELSE "handler_raised",
                       CurEvent(p)[1], ce[p].queue_type, CurEvent(p)[2],
                       CurEvent(p)[3]) EXCEPT !.ctx = mark])
          /\ pc' = [pc EXCEPT ![p] =
                       IF outcome = "ok" THEN "ds_restore_int" ELSE "ce_rollback"]
    /\ UNCHANGED <<dbVars, caller, se, ie, de, sigVars, calls>>
    /\ UNCHANGED extVars

\* rollback(ev_uuid, ev_at, ev, context), line 300, and when it returns the
\* call store_event(itgs, queue_type, ev_at, ev, commit=True) of line 301.
ce_rollback(p) ==
    /\ pc[p] = "ce_rollback"
    /\ \E outcome \in {"ok", "raise"} :
          /\ Log(p, [H("rollback", CurEvent(p)[1], ce[p].queue_type,
                       CurEvent(p)[2], CurEvent(p)[3])
                      EXCEPT !.ctx = RollbackContext(ce[p].context),
                             !.exc = IF outcome = "ok" THEN "" ELSE "rollback failed"])
          /\ IF AfterRollback(outcome) = "store"
                THEN /\ EnterStore(p, ce[p].queue_type, CurEvent(p)[2],
                                   CurEvent(p)[3], RequeueCommit)
                     /\ ce' = ce
                ELSE /\ ce' = [ce EXCEPT ![p].exc =
                                  IF outcome = "ok" THEN "handler failed"
                                  ELSE "rollback failed"]
                     /\ pc' = [pc EXCEPT ![p] = "ds_restore_int"]
                     /\ UNCHANGED <<se, nextUuid>>
    /\ UNCHANGED <<table, stored, txn, docs, collExists, clock, caller, ie, de,
                   sigVars, calls>>
    /\ UNCHANGED extVars

\* finally: signal.signal(signal.SIGINT, old_sigint), lines 29 and 36.
ds_restore_int(p) ==
    /\ pc[p] = "ds_restore_int"
    /\ sigH' = [sigH EXCEPT ![p]["SIGINT"] = ds[p].old_sigint]
    /\ pc' = [pc EXCEPT ![p] = "ds_restore_term"]
    /\ UNCHANGED <<dbVars, caller, frameVars, ds, delivered, sigCount, hist, calls>>
    /\ UNCHANGED extVars

\* signal.signal(signal.SIGTERM, old_sigterm), line 37.
ds_restore_term(p) ==
    /\ pc[p] = "ds_restore_term"
    /\ sigH' = [sigH EXCEPT ![p]["SIGTERM"] = ds[p].old_sigterm]
    /\ pc' = [pc EXCEPT ![p] = "ds_callback"]
    /\ UNCHANGED <<dbVars, caller, frameVars, ds, delivered, sigCount, hist, calls>>
    /\ UNCHANGED extVars

\* Variant: the failure is swallowed and the loop goes on.
Propagates_never(exc) == FALSE

\* The bare `raise` of line 302: a failure of handler or rollback leaves the
\* with block and the for loop.
Propagates(exc) == exc # ""

\* callback(), line 30: the most urgent captured signal is raised again;
\* then the with block is left: the pending exception leaves consume_events,
\* otherwise the loop goes on with the next event.
ds_callback(p) ==
    /\ pc[p] = "ds_callback"
    /\ IF Reraised(ds[p]) = "none"
          THEN UNCHANGED <<ds, delivered>>
          ELSE Deliver(p, Reraised(ds[p]))
    /\ IF Propagates(ce[p].exc)
          THEN /\ Log(p, [H("consume_events", CurEvent(p)[1], ce[p].queue_type, 0,
                            NoDoc) EXCEPT !.exc = ce[p].exc])
               /\ pc' = [pc EXCEPT ![p] = "idle"]
               /\ ce' = [ce EXCEPT ![p] = NoCe]
               /\ de' = de
          ELSE LoopHead(p, ce[p].past_due_events, ce[p].i + 1, hist[p])
    /\ UNCHANGED <<dbVars, caller, se, ie, sigH, sigCount, calls>>
    /\ UNCHANGED extVars

\* ------------------------------------------------------------ initial states
\* The stores before the first call: each of the uuids 1..MaxInit is absent,
\* or a committed row whose document is there or has been lost.
InitEvents ==
    [InitUuids -> {[queue_type |-> qt, event_at |-> at, body |-> b] :
                       qt \in QueueTypes, at \in Times, b \in {"a", NoDoc}}
                  \cup {[queue_type |-> 0, event_at |-> 0, body |-> "absent"]}]

\* uuids are opaque tokens, only ever compared for equality: the initial
\* events are numbered in one canonical order (absent ones last).
KindRank(e) ==
    IF e.body = "absent" THEN 2 * (2 * (MaxTime + 1)) + 1
    ELSE (e.queue_type * (MaxTime + 1) + e.event_at) * 2
         + (IF e.body = NoDoc THEN 1 ELSE 0)

Canonical(evs) ==
    \A u, v \in InitUuids : u < v => KindRank(evs[u]) <= KindRank(evs[v])

InitStores(evs) ==
    /\ Canonical(evs)
    /\ table = {Row(u, evs[u].queue_type, evs[u].event_at) :
                   u \in {v \in InitUuids : evs[v].body # "absent"}}
    /\ stored = {u \in InitUuids : evs[u].body # "absent"}
    /\ docs = [u \in 1 .. (MaxInit + MaxFresh + 1) |->
                  IF u \in InitUuids /\ evs[u].body # "absent"
                     THEN evs[u].body ELSE NoDoc]

\* Every caller idle with an empty transaction; n[p] calls to make.  The
\* clock has reached the latest time events are scheduled for.
InitProcs(n) ==
    /\ txn = [p \in Procs |-> NoTxn]
    /\ nextUuid = MaxInit + 1
    /\ clock = MaxTime
    /\ pc = [p \in Procs |-> "idle"]
    /\ caller = [p \in Procs |-> "top"]
    /\ se = [p \in Procs |-> NoSe]
    /\ ie = [p \in Procs |-> NoIe]
    /\ de = [p \in Procs |-> NoDe]
    /\ ce = [p \in Procs |-> NoCe]
    /\ ds = [p \in Procs |-> NoDs]
    /\ sigH = [p \in Procs |-> [s \in Signals |-> 0]]
    /\ delivered = [p \in Procs |-> <<>>]
    /\ sigCount = [p \in Procs |-> 0]
    /\ hist = [p \in Procs |-> <<>>]
    /\ calls = n

\* Nothing of signal nesting, ratelimits or retry_helper is in use.
InitExt ==
    /\ nest = [p \in Procs |-> <<>>]
    /\ tokColl = FALSE
    /\ tokDoc = NoTok
    /\ rl = [p \in Procs |-> NoRl]
    /\ file = NoTime
    /\ rh = [p \in Procs |-> NoRh]

StoreSteps(p) == se_write(p) \/ se_insert(p) \/ se_commit(p)
ProvisionSteps(p) == se_create(p) \/ se_retry(p)
IndexSteps(p) == ie_select(p) \/ ie_read(p) \/ ie_delete(p) \/ ie_commit(p)
DeleteSteps(p) == de_delete(p) \/ de_commit(p) \/ de_force(p)
ConsumeSteps(p) ==
    \/ ds_sigint(p) \/ ds_sigterm(p) \/ in_handler(p) \/ ce_rollback(p)
    \/ ds_restore_int(p) \/ ds_restore_term(p) \/ ds_callback(p)

\* Stores as committed store_event calls leave them: every row has its document.
Whole(evs) == \A u \in InitUuids : evs[u].body # NoDoc

\* Every initial event is of the callers' queue type.
OneQueue(evs) == \A u \in InitUuids : evs[u].queue_type \in QUEUE_TYPES

\* Every initial event is scheduled for the same time, the latest.
SameTime(evs) ==
    \A u \in InitUuids : evs[u].body # "absent" => evs[u].event_at = MaxTime

\* Spec: two consumers of one queue, one consume_events call each, on stores
\* filled by store_event with events for one time (a consumer finds all of
\* them due or none).
Init ==
    /\ \E evs \in InitEvents :
          Whole(evs) /\ OneQueue(evs) /\ SameTime(evs) /\ InitStores(evs)
    /\ collExists = TRUE
    /\ InitProcs([p \in Procs |-> 1])
    /\ InitExt

Next ==
    \E p \in Procs :
        \/ call_consume_events(p)
        \/ IndexSteps(p) \/ DeleteSteps(p) \/ ConsumeSteps(p) \/ StoreSteps(p)

Spec == Init /\ [][Next]_vars

\* SpecDelete: two callers of delete_event, two calls each.
InitDelete ==
    /\ \E evs \in InitEvents : InitStores(evs)
    /\ collExists = TRUE
    /\ InitProcs([p \in Procs |-> 2])
    /\ InitExt

NextDelete == \E p \in Procs : call_delete_event(p) \/ DeleteSteps(p)

SpecDelete == InitDelete /\ [][NextDelete]_vars

\* SpecDeleteWhole: the same two callers, on stores where every row has its
\* document.
InitDeleteWhole ==
    /\ \E evs \in InitEvents : Whole(evs) /\ InitStores(evs)
    /\ collExists = TRUE
    /\ InitProcs([p \in Procs |-> 2])
    /\ InitExt

SpecDeleteWhole == InitDeleteWhole /\ [][NextDelete]_vars

\* SpecIndex: one caller of index_events, on any initial stores.
InitIndex ==
    /\ \E evs \in InitEvents : InitStores(evs)
    /\ collExists = TRUE
    /\ InitProcs([p \in Procs |-> IF p = 1 THEN 1 ELSE 0])
    /\ InitExt

NextIndex == \E p \in Procs : call_index_events(p) \/ IndexSteps(p)

SpecIndex == InitIndex /\ [][NextIndex]_vars

\* SpecStore: one caller stores an event and then reads the index.
InitStore ==
    /\ \E evs \in InitEvents : InitStores(evs)
    /\ collExists \in BOOLEAN
    /\ (\E u \in DOMAIN docs : docs[u] # NoDoc) => collExists
    /\ InitProcs([p \in Procs |-> IF p = 1 THEN 2 ELSE 0])
    /\ InitExt

NextStore ==
    \E p \in Procs :
        \/ (hist[p] = <<>> /\ call_store_event(p))
        \/ (hist[p] # <<>> /\ call_index_events(p))
        \/ StoreSteps(p) \/ ProvisionSteps(p) \/ IndexSteps(p)

SpecStore == InitStore /\ [][NextStore]_vars

\* SpecSolo: one consumer, one consume_events call, on any initial stores.
InitSolo ==
    /\ \E evs \in InitEvents : InitStores(evs)
    /\ collExists = TRUE
    /\ InitProcs([p \in Procs |-> IF p = 1 THEN 1 ELSE 0])
    /\ InitExt

NextSolo ==
    \E p \in Procs :
        \/ call_consume_events(p)
        \/ IndexSteps(p) \/ DeleteSteps(p) \/ ConsumeSteps(p) \/ StoreSteps(p)

SpecSolo == InitSolo /\ [][NextSolo]_vars

\* SpecSignal: one consumer, and signals sent to it while it runs.
InitSignal ==
    /\ \E evs \in InitEvents : OneQueue(evs) /\ SameTime(evs) /\ InitStores(evs)
    /\ collExists = TRUE
    /\ InitProcs([p \in Procs |-> IF p = 1 THEN 1 ELSE 0])
    /\ InitExt

NextSignal ==
    \E p \in Procs :
        \/ call_consume_events(p) \/ Signal(p)
        \/ IndexSteps(p) \/ DeleteSteps(p) \/ ConsumeSteps(p) \/ StoreSteps(p)

SpecSignal == InitSignal /\ [][NextSignal]_vars

\* The caller's itgs.write_conn.rollback() after a delete_event that was
\* not committed: the case the docstring of delete_event warns about
\* (lines 201-204); or after a store_event (commit documented at lines
\* 51-52).  The transaction's uncommitted changes are dropped.
conn_rollback(p) ==
    /\ pc[p] = "idle"
    /\ Len(hist[p]) = 1 /\ hist[p][1].ev \in {"delete_event", "store_event"}
    /\ txn' = [txn EXCEPT ![p] = NoTxn]
    /\ Log(p, H("conn_rollback", NoUuid, 0, 0, NoDoc))
    /\ UNCHANGED <<table, stored, docs, collExists, nextUuid, clock, pc, caller,
                   frameVars, sigVars, calls>>
    /\ UNCHANGED extVars

\* SpecRollback: one caller deletes an event, rolls its transaction back and
\* reads the index, on stores where every row has its document.
InitRollback ==
    /\ \E evs \in InitEvents : Whole(evs) /\ InitStores(evs)
    /\ collExists = TRUE
    /\ InitProcs([p \in Procs |-> IF p = 1 THEN 2 ELSE 0])
    /\ InitExt

NextRollback ==
    \E p \in Procs :
        \/ (hist[p] = <<>> /\ call_delete_event(p))
        \/ DeleteSteps(p)
        \/ conn_rollback(p)
        \/ (Len(hist[p]) = 2 /\ call_index_events(p))
        \/ IndexSteps(p)

SpecRollback == InitRollback /\ [][NextRollback]_vars

\* ------------------------------------------------------------ nested blocks
\* A caller that nests `with delay_signals():` blocks.  nest[p] is the stack
\* of the frames of _get_delayed_handlers (the closure flags) and
\* delay_signals (old_handlers); the capture handlers of the k-th frame are
\* handler k, handler 0 is what was installed before the outermost block.

\* capture_sigint / capture_sigterm of frame k, lines 46-54.
Capture(frames, k, s) ==
    [frames EXCEPT ![k] =
        IF s = "SIGINT" THEN [@ EXCEPT !.captured_sigint = TRUE]
                        ELSE [@ EXCEPT !.captured_sigterm = TRUE]]

\* Python runs the installed handler of signal s while p's stack of frames
\* is `frames`.
NestDeliver(p, s, frames) ==
    IF sigH[p][s] = 0
       THEN /\ delivered' = [delivered EXCEPT ![p] = Append(@, s)]
            /\ nest' = [nest EXCEPT ![p] = frames]
       ELSE /\ delivered' = delivered
            /\ nest' = [nest EXCEPT ![p] = Capture(frames, sigH[p][s], s)]

\* Variant: the block puts back the handlers of before the outermost block.
OldHandler_original(frame, s) == 0

\* old_handlers of line 25: the handler the block puts back for signal s.
OldHandler(frame, s) ==
    IF s = "SIGINT" THEN frame.old_sigint ELSE frame.old_sigterm

\* delay_signals() is called, at top level or in the body of a block:
\* _get_delayed_handlers, line 24.
nd_enter(p) ==
    /\ pc[p] \in {"idle", "nd_body"} /\ calls[p] > 0
    /\ Len(nest[p]) < MaxDepth
    /\ nest' = [nest EXCEPT ![p] = Append(@, NoDs)]
    /\ calls' = [calls EXCEPT ![p] = @ - 1]
    /\ pc' = [pc EXCEPT ![p] = "nd_sigint"]
    /\ UNCHANGED <<dbVars, caller, frameVars, ds, sigH, delivered, sigCount, hist>>
    /\ UNCHANGED <<tokColl, tokDoc, rl, file, rh>>

\* old_sigint = signal.signal(signal.SIGINT, capture_sigint), line 36.
nd_sigint(p) ==
    /\ pc[p] = "nd_sigint"
    /\ nest' = [nest EXCEPT ![p][Len(nest[p])].old_sigint = sigH[p]["SIGINT"]]
    /\ sigH' = [sigH EXCEPT ![p]["SIGINT"] = Len(nest[p])]
    /\ pc' = [pc EXCEPT ![p] = "nd_sigterm"]
    /\ UNCHANGED <<dbVars, caller, frameVars, ds, delivered, sigCount, hist, calls>>
    /\ UNCHANGED <<tokColl, tokDoc, rl, file, rh>>

\* old_sigterm = signal.signal(signal.SIGTERM, capture_sigterm), line 37;
\* then the body of the block runs (yield, line 27).
nd_sigterm(p) ==
    /\ pc[p] = "nd_sigterm"
    /\ nest' = [nest EXCEPT ![p][Len(nest[p])].old_sigterm = sigH[p]["SIGTERM"]]
    /\ sigH' = [sigH EXCEPT ![p]["SIGTERM"] = Len(nest[p])]
    /\ pc' = [pc EXCEPT ![p] = "nd_body"]
    /\ UNCHANGED <<dbVars, caller, frameVars, ds, delivered, sigCount, hist, calls>>
    /\ UNCHANGED <<tokColl, tokDoc, rl, file, rh>>

\* The body is over; finally: signal.signal(signal.SIGINT, old_sigint),
\* lines 29 and 36.
nd_restore_int(p) ==
    /\ pc[p] = "nd_body"
    /\ sigH' = [sigH EXCEPT ![p]["SIGINT"] =
                   OldHandler(nest[p][Len(nest[p])], "SIGINT")]
    /\ pc' = [pc EXCEPT ![p] = "nd_restore_term"]
    /\ UNCHANGED <<dbVars, caller, frameVars, ds, delivered, sigCount, hist, calls>>
    /\ UNCHANGED extVars

\* signal.signal(signal.SIGTERM, old_sigterm), line 37.
nd_restore_term(p) ==
    /\ pc[p] = "nd_restore_term"
    /\ sigH' = [sigH EXCEPT ![p]["SIGTERM"] =
                   OldHandler(nest[p][Len(nest[p])], "SIGTERM")]
    /\ pc' = [pc EXCEPT ![p] = "nd_callback"]
    /\ UNCHANGED <<dbVars, caller, frameVars, ds, delivered, sigCount, hist, calls>>
    /\ UNCHANGED extVars

\* callback(), line 30: the most urgent captured signal is raised again,
\* and Python runs the handler that is installed now; the block is left for
\* the body of the enclosing block, or for the top level.
nd_callback(p) ==
    /\ pc[p] = "nd_callback"
    /\ LET top == nest[p][Len(nest[p])]
           rest == SubSeq(nest[p], 1, Len(nest[p]) - 1)
       IN  IF Reraised(top) = "none"
              THEN /\ nest' = [nest EXCEPT ![p] = rest]
                   /\ delivered' = delivered
              ELSE NestDeliver(p, Reraised(top), rest)
    /\ pc' = [pc EXCEPT ![p] = IF Len(nest[p]) = 1 THEN "idle" ELSE "nd_body"]
    /\ UNCHANGED <<dbVars, caller, frameVars, ds, sigH, sigCount, hist, calls>>
    /\ UNCHANGED <<tokColl, tokDoc, rl, file, rh>>

\* The operating system sends a signal to p while it runs a block; the
\* history notes the handler that ran.
nd_signal(p) ==
    /\ pc[p] # "idle"
    /\ sigCount[p] < MaxSignals
    /\ \E s \in Signals :
          /\ NestDeliver(p, s, nest[p])
          /\ Log(p, [H("signal", NoUuid, 0, 0, s) EXCEPT !.limit = sigH[p][s]])
    /\ sigCount' = [sigCount EXCEPT ![p] = @ + 1]
    /\ UNCHANGED <<dbVars, pc, caller, frameVars, ds, sigH, calls>>
    /\ UNCHANGED <<tokColl, tokDoc, rl, file, rh>>

\* SpecNested: one caller enters MaxDepth + 1 blocks, nested up to MaxDepth
\* deep, and receives signals at any moment.
InitNested ==
    /\ \E evs \in InitEvents :
          (\A u \in InitUuids : evs[u].body = "absent") /\ InitStores(evs)
    /\ collExists = TRUE
    /\ InitProcs([p \in Procs |-> IF p = 1 THEN MaxDepth + 1 ELSE 0])
    /\ InitExt

NextNested ==
    \E p \in Procs :
        \/ nd_enter(p) \/ nd_sigint(p) \/ nd_sigterm(p)
        \/ nd_restore_int(p) \/ nd_restore_term(p) \/ nd_callback(p)
        \/ nd_signal(p)

SpecNested == InitNested /\ [][NextNested]_vars

\* ------------------------------------------------------------ failing writes
\* What a failing create_or_overwrite_doc raises: HTTPError for a status
\* other than that of a missing collection ("http"), or an exception that is
\* no HTTPError, as a ConnectionError ("io").  A missing collection
\* ("missing") is the HTTPError of se_write.
WriteFailures == {"http", "io"}

\* except requests.exceptions.HTTPError, line 62.
Caught(kind) == kind \in {"missing", "http"}

\* store_event is left by an exception of kind `kind`.
RaiseStore(p, kind) ==
    /\ Log(p, [H("store_event_raised", se[p].event_uuid, se[p].queue_type,
                  se[p].event_at, se[p].event) EXCEPT !.exc = kind])
    /\ se' = [se EXCEPT ![p] = NoSe]
    /\ pc' = [pc EXCEPT ![p] = "idle"]

\* coll.create_or_overwrite_doc(event_uuid, event), line 61, raises while
\* the collection exists or not; line 62 catches it or it leaves store_event.
se_write_fails(p) ==
    /\ pc[p] = "se_write" /\ caller[p] = "top"
    /\ \E kind \in WriteFailures :
          IF Caught(kind)
             THEN /\ Log(p, [H("write_failed", se[p].event_uuid, se[p].queue_type,
                               se[p].event_at, se[p].event) EXCEPT !.exc = kind])
                  /\ pc' = [pc EXCEPT ![p] = "se_create"]
                  /\ se' = se
             ELSE RaiseStore(p, kind)
    /\ UNCHANGED <<dbVars, caller, ie, de, ce, sigVars, calls>>
    /\ UNCHANGED extVars

\* The second coll.create_or_overwrite_doc(event_uuid, event), line 64,
\* raises: it is in no try block.
se_retry_fails(p) ==
    /\ pc[p] = "se_retry" /\ caller[p] = "top"
    /\ \E kind \in WriteFailures : RaiseStore(p, kind)
    /\ UNCHANGED <<dbVars, caller, ie, de, ce, sigVars, calls>>
    /\ UNCHANGED extVars

\* SpecProvision: one caller of store_event, twice, on a collection that
\* exists or not and whose writes may fail.
InitProvision ==
    /\ \E evs \in InitEvents : Whole(evs) /\ InitStores(evs)
    /\ collExists \in BOOLEAN
    /\ (\E u \in DOMAIN docs : docs[u] # NoDoc) => collExists
    /\ InitProcs([p \in Procs |-> IF p = 1 THEN 2 ELSE 0])
    /\ InitExt

NextProvision ==
    \E p \in Procs :
        \/ call_store_event(p)
        \/ StoreSteps(p) \/ ProvisionSteps(p)
        \/ se_write_fails(p) \/ se_retry_fails(p)

SpecProvision == InitProvision /\ [][NextProvision]_vars

\* ------------------------------------------------------------ ratelimits
\* lbshared.ratelimits for one consumer key.  Time is counted in ticks of
\* the clock; the settings are a max_tokens of at most MaxTokens
\* (MaxTokens unless a scenario lets callers change it), refill_amount =
\* RefillAmount and a refill_time_ms of RefillTime ticks; strict is chosen by
\* each call.  The document carries the revision Arango gives it (If-Match of
\* compare_and_swap) and the time its ttl runs out.
RefillAmount == 1
RefillTime == 2
Attempts == 8
Horizon == MaxTime + MaxElapsed
Amounts == 0 .. MaxTokens + 1
MaxTokenSettings == 1 .. MaxTokens

\* Lines 103-106: the body of a consumer without document.
NewBody(max_tokens, cur_time) == [tokens |-> max_tokens, last_refill |-> cur_time]

\* Variant: a refill restarts the timer at the time of the call.
Refilled_restart(body, cur_time) ==
    LET num_refills == (cur_time - body.last_refill) \div RefillTime
    IN  [tokens |-> Min(body.max_tokens, body.tokens + num_refills * RefillAmount),
         last_refill |-> IF num_refills > 0 THEN cur_time ELSE body.last_refill]

\* Variant: the refills are added without the cap of max_tokens.
Refilled_uncapped(body, cur_time) ==
    LET num_refills == (cur_time - body.last_refill) \div RefillTime
    IN  [tokens |-> body.tokens + num_refills * RefillAmount,
         last_refill |-> body.last_refill + num_refills * RefillTime]

\* Lines 108-114: the refills since last_refill are added, up to max_tokens,
\* and last_refill moves on by whole refill times.
Refilled(body, cur_time) ==
    LET num_refills == (cur_time - body.last_refill) \div RefillTime
    IN  [tokens |-> Min(body.max_tokens, body.tokens + num_refills * RefillAmount),
         last_refill |-> body.last_refill + num_refills * RefillTime]

\* Variant: a rejected attempt leaves the refill timer alone.
Rejected_lenient(body, strict, cur_time) == body

\* Lines 119-122: a rejected attempt; strict settings restart the timer.
Rejected(body, strict, cur_time) ==
    IF strict THEN [body EXCEPT !.last_refill = cur_time] ELSE body

\* Variant: tokens are handed out without being deducted.
Spend_free(body, amt, strict, cur_time) ==
    [tokens |-> body.tokens, last_refill |-> body.last_refill,
     consumed |-> body.tokens >= amt]

\* Lines 116-122: the tokens are taken if there are enough of them.
Spend(body, amt, strict, cur_time) ==
    IF body.tokens >= amt
       THEN [tokens |-> body.tokens - amt, last_refill |-> body.last_refill,
             consumed |-> TRUE]
       ELSE [tokens |-> Rejected(body, strict, cur_time).tokens,
             last_refill |-> Rejected(body, strict, cur_time).last_refill,
             consumed |-> FALSE]

\* Lines 124-129: the ticks until the bucket is full again.
Ttl(body, cur_time) ==
    LET refills_until_full ==
            (body.max_tokens - body.tokens + RefillAmount - 1) \div RefillAmount
    IN  body.last_refill + refills_until_full * RefillTime - cur_time

\* Variant: the write replaces whatever is stored.
Swaps_blind(doc, f) == TRUE

\* Lines 131-134: doc.compare_and_swap succeeds when the stored revision is
\* the one read, doc.create when there is no document.
Swaps(doc, f) ==
    IF f.existed THEN doc.exists /\ doc.rev = f.rev ELSE ~doc.exists

\* consume(itgs, settings, consumer, amt), line 72 with i = 0.
call_consume(p) ==
    /\ pc[p] = "idle" /\ calls[p] > 0
    /\ \E amt \in Amounts, strict \in BOOLEAN, max_tokens \in MaxTokenSettings :
          rl' = [rl EXCEPT ![p] = [NoRl EXCEPT !.amt = amt, !.strict = strict,
                                                !.max_tokens = max_tokens]]
    /\ pc' = [pc EXCEPT ![p] = "rl_read"]
    /\ calls' = [calls EXCEPT ![p] = @ - 1]
    /\ UNCHANGED <<dbVars, caller, frameVars, sigVars, hist>>
    /\ UNCHANGED <<nest, tokColl, tokDoc, file, rh>>

\* existed = doc.read(), line 100.  Without the collection _consume yields
\* no result (it raises, which i = 0 forgives at lines 75-79, or its create
\* fails), and the collection is missing only before the setup of i = 0.
rl_read(p) ==
    /\ pc[p] = "rl_read"
    /\ IF tokColl
          THEN /\ rl' = [rl EXCEPT ![p].existed = tokDoc.exists,
                                   ![p].rev = tokDoc.rev,
                                   ![p].tokens = tokDoc.tokens,
                                   ![p].last_refill = tokDoc.last_refill]
               /\ pc' = [pc EXCEPT ![p] = "rl_time"]
          ELSE /\ rl' = rl
               /\ pc' = [pc EXCEPT ![p] = "rl_setup"]
    /\ UNCHANGED <<dbVars, caller, frameVars, sigVars, hist, calls>>
    /\ UNCHANGED <<nest, tokColl, tokDoc, file, rh>>

\* cur_time = time.time() and the arithmetic of lines 101-129.
rl_time(p) ==
    /\ pc[p] = "rl_time"
    /\ LET body == IF rl[p].existed THEN Refilled(rl[p], clock) ELSE NewBody(rl[p].max_tokens, clock)
           spent == Spend(body, rl[p].amt, rl[p].strict, clock)
       IN  rl' = [rl EXCEPT ![p].cur_time = clock,
                            ![p].tokens = spent.tokens,
                            ![p].last_refill = spent.last_refill,
                            ![p].consumed = spent.consumed]
    /\ pc' = [pc EXCEPT ![p] = "rl_write"]
    /\ UNCHANGED <<dbVars, caller, frameVars, sigVars, hist, calls>>
    /\ UNCHANGED <<nest, tokColl, tokDoc, file, rh>>

\* doc.compare_and_swap(ttl=ttl) or doc.create(ttl=ttl), lines 131-138, and
\* lines 81-82: a result that is not None is returned.
rl_write(p) ==
    /\ pc[p] = "rl_write"
    /\ IF Swaps(tokDoc, rl[p])
          THEN /\ tokDoc' = [exists |-> TRUE, rev |-> tokDoc.rev + 1,
                             tokens |-> rl[p].tokens,
                             last_refill |-> rl[p].last_refill,
                             expires |-> clock + Ttl(rl[p], rl[p].cur_time)]
               /\ Log(p, [H("consume", NoUuid, 0, rl[p].cur_time, NoDoc)
                           EXCEPT !.limit = rl[p].amt,
                                  !.before = rl[p].max_tokens,
                                  !.flag = rl[p].consumed,
                                  !.after = rl[p].tokens,
                                  !.ctx = IF rl[p].strict THEN "strict" ELSE ""])
               /\ pc' = [pc EXCEPT ![p] = "idle"]
               /\ rl' = [rl EXCEPT ![p] = NoRl]
          ELSE /\ pc' = [pc EXCEPT ![p] =
                            IF rl[p].i = 0 THEN "rl_setup" ELSE "rl_sleep"]
               /\ UNCHANGED <<tokDoc, hist, rl>>
    /\ UNCHANGED <<dbVars, caller, frameVars, sigVars, calls>>
    /\ UNCHANGED <<nest, tokColl, file, rh>>

\* setup_tokens_collection(itgs, settings), lines 84-85 and 44-45.
rl_setup(p) ==
    /\ pc[p] = "rl_setup"
    /\ tokColl' = TRUE
    /\ pc' = [pc EXCEPT ![p] = "rl_sleep"]
    /\ UNCHANGED <<dbVars, caller, frameVars, sigVars, hist, calls>>
    /\ UNCHANGED <<nest, tokDoc, rl, file, rh>>

\* time.sleep(min(0.05 * (2 ** i), 1)), line 92, and the next i of line 72;
\* after the last attempt consume returns False, line 94.
rl_sleep(p) ==
    /\ pc[p] = "rl_sleep"
    /\ IF rl[p].i + 1 < Attempts
          THEN /\ rl' = [rl EXCEPT ![p].i = @ + 1]
               /\ pc' = [pc EXCEPT ![p] = "rl_read"]
               /\ hist' = hist
          ELSE /\ Log(p, [H("consume", NoUuid, 0, rl[p].cur_time, NoDoc)
                           EXCEPT !.limit = rl[p].amt, !.exc = "contention",
                                  !.ctx = IF rl[p].strict THEN "strict" ELSE ""])
               /\ pc' = [pc EXCEPT ![p] = "idle"]
               /\ rl' = [rl EXCEPT ![p] = NoRl]
    /\ UNCHANGED <<dbVars, caller, frameVars, sigVars, calls>>
    /\ UNCHANGED <<nest, tokColl, tokDoc, file, rh>>

\* Time passes.
Tick ==
    /\ clock < Horizon
    /\ clock' = clock + 1
    /\ UNCHANGED <<table, stored, txn, docs, collExists, nextUuid, pc, caller,
                   frameVars, sigVars, hist, calls>>
    /\ UNCHANGED extVars

\* Arango removes the document once its ttl has run out.
Expire ==
    /\ tokDoc.exists /\ tokDoc.expires <= clock
    /\ tokDoc' = [NoTok EXCEPT !.rev = tokDoc.rev]
    /\ UNCHANGED <<dbVars, pc, caller, frameVars, sigVars, hist, calls>>
    /\ UNCHANGED <<nest, tokColl, rl, file, rh>>

RatelimitSteps(p) ==
    \/ rl_read(p) \/ rl_time(p) \/ rl_write(p) \/ rl_setup(p) \/ rl_sleep(p)

\* The bucket before the first call: no collection, no document, or a
\* document written at some earlier time.
InitBucket ==
    /\ tokColl \in BOOLEAN
    /\ \/ tokDoc = NoTok
       \/ /\ tokColl
          /\ \E t \in 0 .. MaxTokens, l \in 0 .. MaxTime :
                tokDoc = [exists |-> TRUE, rev |-> 1, tokens |-> t,
                          last_refill |-> l,
                          expires |-> l + Ttl([tokens |-> t, last_refill |-> l,
                                             max_tokens |-> MaxTokens], l)]
    /\ nest = [p \in Procs |-> <<>>]
    /\ rl = [p \in Procs |-> NoRl]
    /\ file = NoTime
    /\ rh = [p \in Procs |-> NoRh]

\* SpecBucket: one caller of consume, two calls, while time passes.
InitBucketSolo ==
    /\ \E evs \in InitEvents :
          (\A u \in InitUuids : evs[u].body = "absent") /\ InitStores(evs)
    /\ collExists = TRUE
    /\ InitProcs([p \in Procs |-> IF p = 1 THEN 2 ELSE 0])
    /\ InitBucket

NextBucket ==
    \/ \E p \in Procs :
          \/ call_consume(p) /\ rl'[p].max_tokens = MaxTokens
          \/ RatelimitSteps(p)
    \/ Tick \/ Expire

SpecBucket == InitBucketSolo /\ [][NextBucket]_vars

\* SpecRace: two callers of consume for the same consumer, one call each,
\* on a bucket that has no document yet.
InitRace ==
    /\ \E evs \in InitEvents :
          (\A u \in InitUuids : evs[u].body = "absent") /\ InitStores(evs)
    /\ collExists = TRUE
    /\ InitProcs([p \in Procs |-> 1])
    /\ InitBucket /\ tokDoc = NoTok

SpecRace == InitRace /\ [][NextBucket]_vars

\* SpecSettings: the two callers of SpecRace; caller 1 uses max_tokens =
\* MaxTokens and caller 2 any max_tokens (the settings "can be changed at
\* any time", lines 14-18).
NextSettings ==
    \/ \E p \in Procs :
          \/ call_consume(p) /\ (p = 1 => rl'[p].max_tokens = MaxTokens)
          \/ RatelimitSteps(p)
    \/ Tick \/ Expire

SpecSettings == InitRace /\ [][NextSettings]_vars

\* ------------------------------------------------------------ retry_helper
\* lbshared.retry_helper: the file .retry_helper holds last_started_at, or
\* does not exist (NoTime, the None of last_opened_at).  Times are ticks.
Restarts == 1 .. MaxElapsed

\* Variant: the time still to wait is not slept.
SleepFor_nothing(time_between_restarts, time_since_opened) == 0

\* Lines 23-24: the seconds handle sleeps.
SleepFor(time_between_restarts, time_since_opened) ==
    IF time_since_opened < time_between_restarts
       THEN time_between_restarts - time_since_opened
       ELSE 0

\* handle returns or raises.
ReturnHandle(p, f, exc) ==
    /\ Log(p, [H("handle", NoUuid, 0, clock, NoDoc)
                EXCEPT !.limit = f.time_between_restarts,
                       !.before = f.last_open_at,
                       !.after = f.time_since_opened,
                       !.ret = file,
                       !.flag = f.slept,
                       !.exc = exc])
    /\ pc' = [pc EXCEPT ![p] = "idle"]
    /\ rh' = [rh EXCEPT ![p] = NoRh]

\* handle(time_between_restarts), line 14.
call_handle(p) ==
    /\ pc[p] = "idle" /\ calls[p] > 0
    /\ \E t \in Restarts :
          rh' = [rh EXCEPT ![p] = [NoRh EXCEPT !.time_between_restarts = t]]
    /\ pc' = [pc EXCEPT ![p] = "rh_last"]
    /\ calls' = [calls EXCEPT ![p] = @ - 1]
    /\ UNCHANGED <<dbVars, caller, frameVars, sigVars, hist>>
    /\ UNCHANGED <<nest, tokColl, tokDoc, rl, file>>

\* last_open_at = last_opened_at(), lines 19 and 27-35: None without file.
rh_last(p) ==
    /\ pc[p] = "rh_last"
    /\ rh' = [rh EXCEPT ![p].last_open_at = file]
    /\ pc' = [pc EXCEPT ![p] = "rh_store"]
    /\ UNCHANGED <<dbVars, caller, frameVars, sigVars, hist, calls>>
    /\ UNCHANGED <<nest, tokColl, tokDoc, rl, file>>

\* store_opened_at(), lines 20 and 38-41.
rh_store(p) ==
    /\ pc[p] = "rh_store"
    /\ file' = clock
    /\ pc' = [pc EXCEPT ![p] = "rh_since"]
    /\ UNCHANGED <<dbVars, caller, frameVars, sigVars, hist, calls>>
    /\ UNCHANGED <<nest, tokColl, tokDoc, rl, rh>>

\* time_since_opened = time.time() - last_open_at, line 22: a TypeError when
\* last_open_at is None; then lines 23-24: time.sleep is called, or handle
\* returns.
rh_since(p) ==
    /\ pc[p] = "rh_since"
    /\ IF rh[p].last_open_at = NoTime
          THEN ReturnHandle(p, rh[p], "TypeError")
          ELSE LET since == clock - rh[p].last_open_at
                   f == [rh[p] EXCEPT !.time_since_opened = since]
                   secs == SleepFor(rh[p].time_between_restarts, since)
               IN  IF secs > 0
                      THEN /\ rh' = [rh EXCEPT ![p] =
                                        [f EXCEPT !.slept = TRUE,
                                                  !.wake = clock + secs]]
                           /\ pc' = [pc EXCEPT ![p] = "rh_sleep"]
                           /\ hist' = hist
                      ELSE ReturnHandle(p, f, "")
    /\ UNCHANGED <<dbVars, caller, frameVars, sigVars, calls>>
    /\ UNCHANGED <<nest, tokColl, tokDoc, rl, file>>

\* time.sleep(...) of line 24 returns, no earlier than asked.
rh_sleep(p) ==
    /\ pc[p] = "rh_sleep"
    /\ clock >= rh[p].wake
    /\ ReturnHandle(p, rh[p], "")
    /\ UNCHANGED <<dbVars, caller, frameVars, sigVars, calls>>
    /\ UNCHANGED <<nest, tokColl, tokDoc, rl, file>>

\* SpecRetry: one program calls handle twice while time passes; the file is
\* missing at first, or left by an earlier run.
InitRetry ==
    /\ \E evs \in InitEvents :
          (\A u \in InitUuids : evs[u].body = "absent") /\ InitStores(evs)
    /\ collExists = TRUE
    /\ InitProcs([p \in Procs |-> IF p = 1 THEN 2 ELSE 0])
    /\ nest = [p \in Procs |-> <<>>]
    /\ tokColl = FALSE /\ tokDoc = NoTok
    /\ rl = [p \in Procs |-> NoRl]
    /\ file \in {NoTime} \cup (0 .. MaxTime)
    /\ rh = [p \in Procs |-> NoRh]

NextRetry ==
    \/ \E p \in Procs :
          \/ call_handle(p)
          \/ rh_last(p) \/ rh_store(p) \/ rh_since(p) \/ rh_sleep(p)
    \/ Tick

SpecRetry == InitRetry /\ [][NextRetry]_vars

\* SpecPending: one caller of index_events whose connection holds what
\* store_event(..., commit=False) left: the document written (line 61) and
\* the row inserted (lines 66-73) but not committed.
InitPending ==
    /\ \E evs \in InitEvents : \E qt \in QUEUE_TYPES, at \in Times :
          /\ Canonical(evs)
          /\ table = {Row(u, evs[u].queue_type, evs[u].event_at) :
                         u \in {v \in InitUuids : evs[v].body # "absent"}}
          /\ stored = {u \in InitUuids : evs[u].body # "absent"}
          /\ docs = [u \in 1 .. (MaxInit + MaxFresh + 1) |->
                        IF u = MaxInit + 1 THEN "a"
                        ELSE IF u \in InitUuids /\ evs[u].body # "absent"
                                THEN evs[u].body ELSE NoDoc]
          /\ txn = [p \in Procs |->
                       IF p = 1 THEN [ins |-> {Row(MaxInit + 1, qt, at)}, del |-> {}]
                       ELSE NoTxn]
    /\ collExists = TRUE
    /\ nextUuid = MaxInit + 2
    /\ clock = MaxTime
    /\ pc = [p \in Procs |-> "idle"]
    /\ caller = [p \in Procs |-> "top"]
    /\ se = [p \in Procs |-> NoSe]
    /\ ie = [p \in Procs |-> NoIe]
    /\ de = [p \in Procs |-> NoDe]
    /\ ce = [p \in Procs |-> NoCe]
    /\ ds = [p \in Procs |-> NoDs]
    /\ sigH = [p \in Procs |-> [s \in Signals |-> 0]]
    /\ delivered = [p \in Procs |-> <<>>]
    /\ sigCount = [p \in Procs |-> 0]
    /\ hist = [p \in Procs |-> <<>>]
    /\ calls = [p \in Procs |-> IF p = 1 THEN 1 ELSE 0]
    /\ InitExt

SpecPending == InitPending /\ [][NextIndex]_vars

\* SpecQuiet: two consumers, one consume_events call each, in runs where
\* rollback returns (so line 301 stores the event again) and handler leaves
\* the context dict empty.
NextQuiet ==
    \E p \in Procs :
        \/ call_consume_events(p)
        \/ IndexSteps(p) \/ DeleteSteps(p) \/ StoreSteps(p)
        \/ ds_sigint(p) \/ ds_sigterm(p)
        \/ (in_handler(p) /\ ce'[p].context = "")
        \/ (ce_rollback(p) /\ pc'[p] = "se_write")
        \/ ds_restore_int(p) \/ ds_restore_term(p) \/ ds_callback(p)

SpecQuiet == Init /\ [][NextQuiet]_vars

\* SpecProduce: caller 1 stores an event (payload "a") and may roll its
\* connection back while caller 2 reads the whole index (no time bounds,
\* oldest first), on any initial stores.
NextProduce ==
    \/ (hist[1] = <<>> /\ call_store_event(1) /\ se'[1].event = "a")
    \/ StoreSteps(1) \/ conn_rollback(1)
    \/ /\ hist[2] = <<>>
       /\ call_index_events(2)
       /\ ie'[2].before_time = NoTime /\ ie'[2].after_time = NoTime
       /\ ie'[2].order = "asc"
    \/ IndexSteps(2)

SpecProduce == InitDelete /\ [][NextProduce]_vars

\* SpecHeal: one caller reads the whole queue with 'delete_and_commit', oldest
\* first, again and again (once per initial row), on any initial stores.
\* Every call it starts runs to its end and the caller goes on calling.
InitHeal ==
    /\ \E evs \in InitEvents : InitStores(evs)
    /\ collExists = TRUE
    /\ InitProcs([p \in Procs |-> IF p = 1 THEN MaxInit ELSE 0])
    /\ InitExt

NextHeal ==
    \/ /\ call_index_events(1)
       /\ ie'[1].integrity_failures = "delete_and_commit"
       /\ ie'[1].before_time = NoTime /\ ie'[1].after_time = NoTime
       /\ ie'[1].order = "asc"
    \/ IndexSteps(1)

SpecHeal == InitHeal /\ [][NextHeal]_vars /\ WF_vars(NextHeal)

\* ================================================================ properties
\* Positions of the entries of kind `kind` in the history of caller p.
Entries(p, kind) == {i \in 1 .. Len(hist[p]) : hist[p][i].ev = kind}

\* Every caller has made its calls and returned from them.
AllDone == \A p \in Procs : pc[p] = "idle" /\ calls[p] = 0

\* No row of uuid u is committed or pending in any transaction.
NoRow(u) ==
    /\ \A r \in table : r.uuid # u
    /\ \A p \in Procs : \A r \in txn[p].ins : r.uuid # u

\* ---------------------------------------------------------------- C1
\* Returned delete_event(u, commit=True) calls that reported True.
TrueDeletes(u) ==
    UNION {{<<p, i>> : i \in {j \in Entries(p, "delete_event") :
                                 /\ hist[p][j].uuid = u
                                 /\ hist[p][j].ctx = "commit"
                                 /\ hist[p][j].flag}} : p \in Procs}

\* Both callers' first call was delete_event(u, commit=True), and returned.
BothDeleted(u) ==
    \A p \in Procs :
        /\ Len(hist[p]) >= 1
        /\ hist[p][1].ev = "delete_event" /\ hist[p][1].uuid = u
        /\ hist[p][1].ctx = "commit"

\* C1: of the delete_event(eventId, commit=True) calls made for one event, in
\* any interleaving, at most one returns True; when two callers both make the
\* call for a committed stored event, exactly one gets True, the other False.
C1_DeleteExclusive ==
    \A u \in 1 .. (MaxInit + MaxFresh) :
        /\ Cardinality(TrueDeletes(u)) <= 1
        /\ (u \in stored /\ BothDeleted(u))
              => Cardinality({p \in Procs : hist[p][1].flag}) = 1

\* C1 witness: both callers have raced for one committed stored event.
C1_Witness ==
    \E u \in stored : BothDeleted(u) /\ \E p \in Procs : ~hist[p][1].flag

\* ---------------------------------------------------------------- C2
\* The queue held a single event at first (under Spec it is scheduled for
\* MaxTime), both consumers have run consume_events at a time the event was
\* due, their calls overlapped, and both have returned.
SingleDueBothRan ==
    /\ Cardinality(stored \cap InitUuids) = 1
    /\ AllDone
    /\ \A p \in Procs : \A i \in Entries(p, "consume_call") : ~hist[p][i].flag
    /\ \A p \in Procs :
          \E i \in Entries(p, "index_events") : hist[p][i].before > MaxTime

\* One consumer invoked handler once, the other invoked neither callback.
OneHandled ==
    \E p \in Procs :
        /\ Cardinality(Entries(p, "handler")) = 1
        /\ \A q \in Procs \ {p} :
              Entries(q, "handler") = {} /\ Entries(q, "rollback") = {}

NoHandlerRaised == \A p \in Procs : Entries(p, "handler_raised") = {}

C3_ReturnsEventId ==
    \A p \in Procs : \A i \in Entries(p, "store_event") :
        hist[p][i].ret = hist[p][i].uuid

\* ---------------------------------------------------------------- C4
\* Caller 1 has returned from store_event(t, at, p, commit=True) and then from
\* index_events(t, limit, before_time) with before_time > at, the other
\* arguments at their defaults.
StoredThenIndexed ==
    /\ Len(hist[1]) = 2
    /\ hist[1][1].ev = "store_event" /\ hist[1][1].flag
    /\ hist[1][2].ev = "index_events" /\ hist[1][2].exc = ""
    /\ hist[1][2].queue_type = hist[1][1].queue_type
    /\ hist[1][2].before # NoTime /\ hist[1][2].before > hist[1][1].event_at
    /\ hist[1][2].after = NoTime /\ hist[1][2].order = "asc"
    /\ hist[1][2].ctx = "include"

StoredEntry == <<hist[1][1].uuid, hist[1][1].event_at, hist[1][1].body>>

\* The other rows of the stored event's queue type.
OthersOfType ==
    {r \in table : r.queue_type = hist[1][1].queue_type /\ r.uuid # hist[1][1].uuid}

\* Those of them scheduled no later than the stored event.
OthersNotLater == {r \in OthersOfType : r.event_at <= hist[1][1].event_at}

\* C4 as stated: after store_event(t, at, p, commit=True) an immediate
\* index_events(t, limit >= 1, before_time > at) returns an entry for the event
\* with eventAt = at and payload p; if it is the only event of queue type t
\* the result is exactly that one tuple.
C4_Original ==
    StoredThenIndexed =>
        /\ StoredEntry \in Range(hist[1][2].result)
        /\ (OthersOfType = {} => hist[1][2].result = <<StoredEntry>>)

\* C4 amended: the entry is returned provided fewer than `limit` other events
\* of queue type t are scheduled at or before `at` (the query returns only the
\* first `limit` rows in ascending eventAt order); the only event of queue
\* type t is returned as exactly one tuple.
C4_RoundTrip ==
    StoredThenIndexed =>
        /\ (Cardinality(OthersNotLater) < hist[1][2].limit
               => StoredEntry \in Range(hist[1][2].result))
        /\ (OthersOfType = {} => hist[1][2].result = <<StoredEntry>>)

\* C4 witness: the stored event is returned next to an earlier one.
C4_Witness ==
    /\ StoredThenIndexed
    /\ OthersNotLater # {}
    /\ Cardinality(OthersNotLater) < hist[1][2].limit
    /\ Len(hist[1][2].result) = 2

\* ---------------------------------------------------------------- C5
\* Same event arguments in two history entries.
SameEvent(e, f) ==
    /\ e.queue_type = f.queue_type /\ e.event_at = f.event_at /\ e.body = f.body

\* Caller p's consume_events found one due event, its handler raised at
\* entry i, rollback returned, and consume_events has terminated.
RaisedOnOnly(p, i) ==
    /\ pc[p] = "idle" /\ calls[p] = 0
    /\ i \in Entries(p, "handler_raised")
    /\ \E j \in Entries(p, "index_events") : Len(hist[p][j].result) = 1
    /\ \E j \in Entries(p, "rollback") : hist[p][j].exc = ""

\* The committed rows and documents of events stored after the start.
NewEvents ==
    {[uuid |-> r.uuid, queue_type |-> r.queue_type, event_at |-> r.event_at,
      body |-> docs[r.uuid]] : r \in {t \in table : t.uuid \notin InitUuids}}

\* C5: when handler raises on the only due event (rollback returning, the
\* requeue path), after consume_events terminates the original eventId has no
\* index row and no payload, and exactly one new event exists, with the same
\* queueType, eventAt and payload under a different eventId.
C5_RequeuedUnderNewId ==
    \A p \in Procs : \A i \in 1 .. Len(hist[p]) :
        RaisedOnOnly(p, i) =>
            /\ NoRow(hist[p][i].uuid)
            /\ docs[hist[p][i].uuid] = NoDoc
            /\ Cardinality(NewEvents) = 1
            /\ \A n \in NewEvents :
                  /\ n.uuid # hist[p][i].uuid
                  /\ SameEvent(n, hist[p][i])
            /\ \A u \in DOMAIN docs :
                  (u \notin InitUuids /\ docs[u] # NoDoc)
                     => \E n \in NewEvents : n.uuid = u

\* C5 witness: a handler has raised on the only due event and the call is over.
C5_Witness == \E p \in Procs : \E i \in 1 .. Len(hist[p]) : RaisedOnOnly(p, i)

\* ---------------------------------------------------------------- C6
\* C6: when the handler succeeds for a claimed event, there is (from then on,
\* so also after consume_events returns) no index row and no payload record
\* for that eventId, and nothing is re-stored for it: neither rollback nor
\* store_event follows, and every store_event follows a rollback.
C6_SuccessLeavesNothing ==
    \A p \in Procs :
        /\ \A i \in Entries(p, "handler_ok") :
              /\ NoRow(hist[p][i].uuid)
              /\ docs[hist[p][i].uuid] = NoDoc
              /\ i < Len(hist[p])
                    => hist[p][i + 1].ev \in {"delete_event", "consume_events"}
        /\ \A j \in Entries(p, "store_event") :
              j > 2 /\ hist[p][j - 1].ev = "rollback"
                    /\ hist[p][j - 2].ev = "handler_raised"

\* C6 witness: a consume_events call that handled an event has returned.
C6_Witness ==
    \E p \in Procs :
        /\ pc[p] = "idle"
        /\ Entries(p, "handler_ok") # {}
        /\ \E j \in Entries(p, "consume_events") : hist[p][j].exc = ""

\* ---------------------------------------------------------------- C7
\* Caller p's call has ended, or entry i is not the latest of its history.
Followed(p, i) == i < Len(hist[p])

\* C7: on handler failure consume_events calls rollback with the event's
\* arguments and the context as handler left it, then (rollback having
\* returned) store_event(queueType, eventAt, payload, commit=True), then
\* re-raises the handler's exception to the caller, in this order; rollback
\* is never invoked unless handler raised.
C7_FailureOrder ==
    \A p \in Procs :
        /\ \A i \in Entries(p, "rollback") :
              /\ i > 1 /\ hist[p][i - 1].ev = "handler_raised"
              /\ hist[p][i].uuid = hist[p][i - 1].uuid
              /\ SameEvent(hist[p][i], hist[p][i - 1])
              /\ hist[p][i].ctx = hist[p][i - 1].ctx
              /\ (hist[p][i].exc = "" /\ Followed(p, i)) =>
                     /\ hist[p][i + 1].ev = "store_event"
                     /\ hist[p][i + 1].flag
                     /\ SameEvent(hist[p][i + 1], hist[p][i])
        /\ \A i \in Entries(p, "handler_raised") :
              /\ Followed(p, i) => hist[p][i + 1].ev = "rollback"
              /\ pc[p] = "idle" => Followed(p, i)
        /\ \A i \in Entries(p, "store_event") :
              /\ i > 1 /\ hist[p][i - 1].ev = "rollback" /\ hist[p][i - 1].exc = ""
              /\ Followed(p, i) =>
                     /\ i + 1 = Len(hist[p])
                     /\ hist[p][i + 1].ev = "consume_events"
                     /\ hist[p][i + 1].exc = "handler failed"
              /\ pc[p] = "idle" => Followed(p, i)

\* C7 witness: a call has ended re-raising the exception of a handler that
\* had written to its context.
C7_Witness ==
    \E p \in Procs :
        /\ pc[p] = "idle"
        /\ \E i \in Entries(p, "handler_raised") : hist[p][i].ctx = "partial"
        /\ \E i \in Entries(p, "consume_events") : hist[p][i].exc = "handler failed"

\* ---------------------------------------------------------------- C8
\* C8: if rollback raises, that exception leaves consume_events, store_event
\* is not called for the event, and the event is lost: neither its eventId
\* nor a new one carries it in either store.
C8_RollbackFailureLosesEvent ==
    \A p \in Procs : \A i \in Entries(p, "rollback") :
        hist[p][i].exc # "" =>
            /\ \A j \in Entries(p, "store_event") : j < i
            /\ NoRow(hist[p][i].uuid)
            /\ docs[hist[p][i].uuid] = NoDoc
            /\ \A n \in NewEvents : ~SameEvent(n, hist[p][i])
            /\ \A u \in DOMAIN docs : u \notin InitUuids => docs[u] = NoDoc
            /\ \A q \in Procs : se[q] = NoSe
            /\ pc[p] = "idle" =>
                  /\ hist[p][Len(hist[p])].ev = "consume_events"
                  /\ hist[p][Len(hist[p])].exc = hist[p][i].exc

\* C8 witness: a call has ended with the exception of its rollback.
C8_Witness ==
    \E p \in Procs :
        /\ pc[p] = "idle"
        /\ \E i \in Entries(p, "rollback") : hist[p][i].exc # ""

\* ---------------------------------------------------------------- C10
NoAbsentPayload(result) == \A k \in 1 .. Len(result) : result[k][3] # NoDoc

\* C10: index_events with integrity_failures='delete_and_commit' never returns
\* an entry whose payload is absent, whatever the two stores hold (neither
\* the returned list nor the list being built has one).
C10_NoAbsentPayload ==
    \A p \in Procs :
        /\ \A i \in Entries(p, "index_events") :
              hist[p][i].ctx = "delete_and_commit"
                 => NoAbsentPayload(hist[p][i].result)
        /\ ie[p].integrity_failures = "delete_and_commit"
              => NoAbsentPayload(ie[p].result)

\* C10 witness: a 'delete_and_commit' call has met a row without document,
\* removed it, and returned another event.
C10_Witness ==
    \E p \in Procs : \E i \in Entries(p, "index_events") :
        /\ hist[p][i].ctx = "delete_and_commit"
        /\ hist[p][i].exc = ""
        /\ Len(hist[p][i].result) > 0
        /\ stored \ {r.uuid : r \in table} # {}

\* ---------------------------------------------------------------- C9
\* Caller p is inside an event's unit: its claim is committed (line 227 has
\* run with success) and its handler, or rollback and requeue, have not
\* completed yet.
InUnit(p) ==
    /\ caller[p] = "consume"
    /\ \/ pc[p] = "de_force" /\ de[p].success
       \/ pc[p] \in {"ds_sigint", "ds_sigterm", "in_handler", "ce_rollback",
                      "se_write", "se_insert", "se_commit"}

\* C9 as stated: from the commit of an event's claim until its handler (or
\* rollback and requeue) has completed, no SIGINT/SIGTERM reaches the
\* process's previous handler.
C9_NoSignalMidEvent ==
    [][\A p \in Procs : InUnit(p) => delivered'[p] = delivered[p]]_vars

\* ---------------------------------------------------------------- C11
\* Entry e records a returned index_events call with the given policy.
Returned(e, policy) == e.ev = "index_events" /\ e.exc = "" /\ e.ctx = policy

\* Positions in the selected rows of e whose document is missing.
Failures(e) == {k \in 1 .. Len(e.selected) : docs[e.selected[k][1]] = NoDoc}

\* The selected rows of e with a document, in the order selected.
RECURSIVE Kept(_, _)
Kept(e, k) ==
    IF k = 0 THEN <<>>
    ELSE IF k \in Failures(e) THEN Kept(e, k - 1)
    ELSE Append(Kept(e, k - 1),
                <<e.selected[k][1], e.selected[k][2], docs[e.selected[k][1]]>>)

\* C11: with 'delete_and_commit' every selected row whose payload is missing
\* is deleted and the deletion committed before index_events returns (under
\* SpecIndex nothing else removes rows, so the window then matches one row
\* fewer per integrity failure); the entry is omitted from the result, which
\* may hold fewer than limit entries.
C11_FailuresDeletedAndCommitted ==
    \A p \in Procs : \A i \in 1 .. Len(hist[p]) :
        Returned(hist[p][i], "delete_and_commit") =>
            LET e == hist[p][i]
                gone == {e.selected[k][1] : k \in Failures(e)}
            IN  /\ txn[p] = NoTxn
                /\ stored \ {r.uuid : r \in table} = gone
                /\ Cardinality(gone) = Cardinality(Failures(e))
                /\ \A r \in Matching(Visible(p), e.queue_type, e.before, e.after) :
                      r.uuid \notin gone
                /\ e.result = Kept(e, Len(e.selected))
                /\ Len(e.result) = Len(e.selected) - Cardinality(Failures(e))

\* C11 witness: a 'delete_and_commit' call selected as many rows as its
\* limit allows, one of them without document, and returned fewer.
C11_Witness ==
    \E p \in Procs : \E i \in 1 .. Len(hist[p]) :
        /\ Returned(hist[p][i], "delete_and_commit")
        /\ Len(hist[p][i].selected) = hist[p][i].limit
        /\ Failures(hist[p][i]) # {}
        /\ Len(hist[p][i].result) > 0

\* ---------------------------------------------------------------- C12
\* The rows of e's queue type and window that connection p sees.
Window(p, e) == Matching(Visible(p), e.queue_type, e.before, e.after)

\* Caller p is inside index_events with integrity_failures='include'.
Including(p) ==
    /\ pc[p] \in {"ie_select", "ie_read", "ie_delete", "ie_commit"}
    /\ ie[p].integrity_failures = "include"

\* C12: index_events with 'include' returns one entry for every selected row
\* (the rows matching queueType and the time bounds, up to limit), in query
\* order, a row without payload as (eventId, eventAt, None); and it modifies
\* no store.
C12_IncludeReturnsEveryRow ==
    /\ [](\A p \in Procs : \A i \in 1 .. Len(hist[p]) :
            Returned(hist[p][i], "include") =>
                LET e == hist[p][i]
                IN  /\ Len(e.selected) = Min(e.limit, Cardinality(Window(p, e)))
                    /\ \A k \in 1 .. Len(e.selected) :
                          \E r \in Window(p, e) :
                             e.selected[k] = <<r.uuid, r.event_at>>
                    /\ Len(e.result) = Len(e.selected)
                    /\ \A k \in 1 .. Len(e.selected) :
                          e.result[k] = <<e.selected[k][1], e.selected[k][2],
                                          docs[e.selected[k][1]]>>)
    /\ [][\A p \in Procs : Including(p) =>
             table' = table /\ txn' = txn /\ docs' = docs
             /\ collExists' = collExists]_vars

\* C12 witness: an 'include' call has returned an entry without payload
\* next to one with payload.
C12_Witness ==
    \E p \in Procs : \E i \in 1 .. Len(hist[p]) :
        /\ Returned(hist[p][i], "include")
        /\ \E k \in 1 .. Len(hist[p][i].result) : hist[p][i].result[k][3] = NoDoc
        /\ \E k \in 1 .. Len(hist[p][i].result) : hist[p][i].result[k][3] # NoDoc

\* ---------------------------------------------------------------- C13
\* Entry e records a returned index_events call with one of the two policies.
ReturnedEither(e) == Returned(e, "include") \/ Returned(e, "delete_and_commit")

\* C13: the list one index_events call returns is non-decreasing in eventAt
\* with order='asc' and non-increasing with order='desc', under both
\* integrity-failure policies.
C13_ResultOrdered ==
    \A p \in Procs : \A i \in 1 .. Len(hist[p]) :
        ReturnedEither(hist[p][i]) =>
            \A j, k \in 1 .. Len(hist[p][i].result) :
                j < k =>
                    /\ hist[p][i].order = "asc"
                          => hist[p][i].result[j][2] <= hist[p][i].result[k][2]
                    /\ hist[p][i].order = "desc"
                          => hist[p][i].result[j][2] >= hist[p][i].result[k][2]

\* C13 witness: a 'desc' call has returned two events of different times.
C13_Witness ==
    \E p \in Procs : \E i \in 1 .. Len(hist[p]) :
        /\ ReturnedEither(hist[p][i])
        /\ hist[p][i].order = "desc"
        /\ Len(hist[p][i].result) = 2
        /\ hist[p][i].result[1][2] > hist[p][i].result[2][2]

\* ---------------------------------------------------------------- C14
\* C14: the time bounds are strict (with after_time=X no returned entry has
\* eventAt <= X, with before_time=Y none has eventAt >= Y), every returned
\* entry is a row of the requested queue type, and at most limit entries are
\* returned.
C14_StrictBounds ==
    \A p \in Procs : \A i \in 1 .. Len(hist[p]) :
        ReturnedEither(hist[p][i]) =>
            LET e == hist[p][i]
            IN  /\ Len(e.result) <= e.limit
                /\ \A k \in 1 .. Len(e.result) :
                      /\ e.after # NoTime => e.result[k][2] > e.after
                      /\ e.before # NoTime => e.result[k][2] < e.before
                      /\ \E r \in table :
                            /\ r.uuid = e.result[k][1]
                            /\ r.event_at = e.result[k][2]
                            /\ r.queue_type = e.queue_type

\* C14 witness: a call with both bounds has returned an event while rows at
\* a bound and rows of another queue type were stored.
C14_Witness ==
    \E p \in Procs : \E i \in 1 .. Len(hist[p]) :
        /\ ReturnedEither(hist[p][i])
        /\ hist[p][i].after # NoTime /\ hist[p][i].before # NoTime
        /\ Len(hist[p][i].result) > 0
        /\ \E r \in table :
              \/ r.queue_type # hist[p][i].queue_type
              \/ r.event_at = hist[p][i].after
              \/ r.event_at = hist[p][i].before

\* ---------------------------------------------------------------- C15
\* C15 as stated: index_events raises for every integrity-failure policy
\* other than 'include' and 'delete_and_commit', whatever the stores hold.
C15_OtherPolicyRaises ==
    \A p \in Procs : \A i \in 1 .. Len(hist[p]) :
        (hist[p][i].ev = "index_events"
         /\ hist[p][i].ctx \notin {"include", "delete_and_commit"})
            => hist[p][i].exc # ""

\* ---------------------------------------------------------------- C16
\* The rows connection p sees after the step.
VisibleNext(p) == (table' \ txn'[p].del) \cup txn'[p].ins

\* C16: delete_event force-deletes the payload record of eventId on every
\* call, whether or not an index row existed (also when it returns False),
\* and the returned boolean tells only whether the DELETE removed an index
\* row.
C16_PayloadAlwaysDeleted ==
    /\ [](\A p \in Procs : \A i \in Entries(p, "delete_event") :
            docs[hist[p][i].uuid] = NoDoc)
    /\ [][\A p \in Procs :
            /\ (pc[p] = "de_delete" /\ pc'[p] # "de_delete") =>
                  /\ VisibleNext(p) = {r \in Visible(p) : r.uuid # de[p].event_uuid}
                  /\ de'[p].success = (VisibleNext(p) # Visible(p))
            /\ (pc[p] = "de_force" /\ pc'[p] # "de_force") =>
                  /\ docs'[de[p].event_uuid] = NoDoc
                  /\ hist'[p][Len(hist'[p])].ev = "delete_event"
                  /\ hist'[p][Len(hist'[p])].flag = de[p].success]_vars

\* C16 witness: a call that returned False has removed the payload record
\* of a stored event (under SpecDeleteWhole it had one): the only other call
\* for the event, the one that removed the row, has not reached line 229.
C16_Witness ==
    \E p \in Procs : \E q \in Procs \ {p} :
        /\ Len(hist[p]) = 1 /\ hist[q] = <<>>
        /\ hist[p][1].ev = "delete_event" /\ ~hist[p][1].flag
        /\ hist[p][1].uuid \in stored
        /\ docs[hist[p][1].uuid] = NoDoc
        /\ pc[p] = "idle"
        /\ pc[q] = "de_force" /\ de[q].success
        /\ de[q].event_uuid = hist[p][1].uuid

\* ---------------------------------------------------------------- C17
\* Caller p made delete_event(u, commit=False), which found the row, and
\* then rolled its transaction back.
DeletedThenRolledBack(p) ==
    /\ Len(hist[p]) >= 2
    /\ hist[p][1].ev = "delete_event" /\ hist[p][1].ctx = "" /\ hist[p][1].flag
    /\ hist[p][2].ev = "conn_rollback"

\* C17: the payload deletion of delete_event is not undone by the relational
\* transaction: after delete_event(eventId, commit=False) and a rollback, the
\* index row of eventId exists again while its payload is absent, and no
\* later operation reads the payload back (index_events returns the row
\* with None, or with 'delete_and_commit' removes it).
C17_PayloadNotRestored ==
    \A p \in Procs :
        DeletedThenRolledBack(p) =>
            LET u == hist[p][1].uuid
            IN  /\ docs[u] = NoDoc
                /\ (Len(hist[p]) = 2
                    /\ ie[p].integrity_failures # "delete_and_commit") =>
                      \E r \in table : r.uuid = u /\ r \in Visible(p)
                /\ \A i \in 3 .. Len(hist[p]) :
                      \A k \in 1 .. Len(hist[p][i].result) :
                         hist[p][i].result[k][1] = u
                            => /\ hist[p][i].result[k][3] = NoDoc
                               /\ hist[p][i].ctx = "include"

\* C17 witness: after the rollback index_events has returned the row
\* without its payload (under SpecRollback every row starts with one).
C17_Witness ==
    \E p \in Procs :
        /\ DeletedThenRolledBack(p)
        /\ Len(hist[p]) = 3
        /\ \E k \in 1 .. Len(hist[p][3].result) :
              hist[p][3].result[k][1] = hist[p][1].uuid

\* ---------------------------------------------------------------- C18
\* The rank of p's i-th history entry among its delete_event calls.
ClaimRank(p, i) == Cardinality({j \in Entries(p, "delete_event") : j <= i})

\* The batch of consumer p: what its index_events call returned.
Batch(p) ==
    IF Entries(p, "index_events") = {} THEN <<>>
    ELSE hist[p][CHOOSE j \in Entries(p, "index_events") : TRUE].result

\* C18: when delete_event reports that the selected event did not exist,
\* consume_events invokes neither handler nor rollback for it, re-stores
\* nothing, raises nothing, and goes on with the next selected event (or
\* returns when there is none).
C18_ConflictSilent ==
    \A p \in Procs : \A i \in Entries(p, "delete_event") :
        ~hist[p][i].flag =>
            LET b == Batch(p)
                k == ClaimRank(p, i)
            IN  /\ \A j \in 1 .. Len(hist[p]) :
                      hist[p][j].ev \in {"handler", "handler_ok",
                                         "handler_raised", "rollback"}
                         => hist[p][j].uuid # hist[p][i].uuid
                /\ pc[p] = "idle" => i < Len(hist[p])
                /\ k \in 1 .. Len(b)
                /\ b[k][1] = hist[p][i].uuid
                /\ i < Len(hist[p]) =>
                      IF k < Len(b)
                         THEN /\ hist[p][i + 1].ev = "delete_event"
                              /\ hist[p][i + 1].uuid = b[k + 1][1]
                         ELSE /\ hist[p][i + 1].ev = "consume_events"
                              /\ hist[p][i + 1].exc = ""

\* C18 witness: a consumer lost the claim of its first event and went on to
\* handle the second.
C18_Witness ==
    \E p \in Procs : \E i \in Entries(p, "delete_event") :
        /\ ~hist[p][i].flag
        /\ \E j \in Entries(p, "handler_ok") : j > i

\* ---------------------------------------------------------------- C19
\* Caller p executes the body of the `with delay_signals(itgs)` block.
InBlock(p) ==
    /\ caller[p] = "consume"
    /\ pc[p] \in {"in_handler", "ce_rollback", "se_write", "se_insert", "se_commit"}

\* Caller p leaves delay_signals: its callback() runs in this step.
BlockEnds(p) == pc[p] = "ds_callback" /\ pc'[p] # "ds_callback"

\* C19: a SIGINT or SIGTERM raised inside a delay_signals block is not
\* delivered to the previously installed handler while the block executes
\* (it is captured, and stays captured), and is delivered to that handler
\* when the block ends (SIGINT unless a SIGTERM was captured as well).
C19_DelayedUntilBlockEnds ==
    [][\A p \in Procs :
         /\ InBlock(p) =>
               /\ delivered'[p] = delivered[p]
               /\ sigCount'[p] # sigCount[p] =>
                     \/ ds'[p] = [ds[p] EXCEPT !.captured_sigint = TRUE]
                     \/ ds'[p] = [ds[p] EXCEPT !.captured_sigterm = TRUE]
         /\ (InBlock(p) \/ pc[p] \in {"ds_restore_int", "ds_restore_term"}) =>
               /\ ds[p].captured_sigint => ds'[p].captured_sigint
               /\ ds[p].captured_sigterm => ds'[p].captured_sigterm
         /\ BlockEnds(p) =>
               /\ ds[p].captured_sigterm
                     => delivered'[p] = Append(delivered[p], "SIGTERM")
               /\ (ds[p].captured_sigint /\ ~ds[p].captured_sigterm)
                     => delivered'[p] = Append(delivered[p], "SIGINT")]_vars

\* C19 witness: the one signal sent to a consumer was captured, and after
\* the block the previous handler has received it.
C19_Witness ==
    \E p \in Procs :
        /\ pc[p] = "idle" /\ sigCount[p] = 1
        /\ ds[p].captured_sigint \/ ds[p].captured_sigterm
        /\ Len(delivered[p]) = 1

\* ---------------------------------------------------------------- C20
\* C20: at the end of a delay_signals block at most one signal is re-raised,
\* the most urgent one captured: with both SIGINT and SIGTERM captured only
\* SIGTERM is re-raised and SIGINT is dropped; with nothing captured nothing
\* is raised.
C20_MostUrgentOnly ==
    [][\A p \in Procs :
         BlockEnds(p) =>
            /\ Len(delivered'[p]) <= Len(delivered[p]) + 1
            /\ \A k \in 1 .. Len(delivered[p]) : delivered'[p][k] = delivered[p][k]
            /\ (ds[p].captured_sigint /\ ds[p].captured_sigterm)
                  => delivered'[p] = Append(delivered[p], "SIGTERM")
            /\ (~ds[p].captured_sigint /\ ~ds[p].captured_sigterm)
                  => delivered'[p] = delivered[p]]_vars

\* C20 witness: both signals were captured in one block and the previous
\* handlers have received SIGTERM alone.
C20_Witness ==
    \E p \in Procs :
        /\ pc[p] = "idle"
        /\ ds[p].captured_sigint /\ ds[p].captured_sigterm
        /\ delivered[p] = <<"SIGTERM">>

\* ---------------------------------------------------------------- C21
\* Caller p is inside an inner block: from the inner delay_signals() call to
\* its callback().
InInner(p) == Len(nest[p]) >= 2

\* Frame k of p's stack has captured signal s.
Holds(frames, k, s) ==
    IF s = "SIGINT" THEN frames[k].captured_sigint ELSE frames[k].captured_sigterm

\* C21: delay_signals nests.  A signal received inside an inner block is
\* captured by a block of the stack and not delivered to the handler that
\* was installed before the outermost block; what a block has captured stays
\* captured while the block lasts; an inner block that ends hands its most
\* urgent captured signal to an enclosing block, and the outermost block
\* delivers its most urgent captured signal to that handler when it ends
\* (a SIGINT is superseded by a SIGTERM captured as well).
C21_NestedDelayed ==
    [][\A p \in Procs :
         /\ InInner(p) =>
               /\ delivered'[p] = delivered[p]
               /\ sigCount'[p] # sigCount[p] =>
                     \E s \in Signals : \E k \in 1 .. Len(nest[p]) :
                        /\ hist'[p][Len(hist'[p])].body = s
                        /\ Holds(nest'[p], k, s)
         /\ \A k \in 1 .. Min(Len(nest[p]), Len(nest'[p])) : \A s \in Signals :
               Holds(nest[p], k, s) => Holds(nest'[p], k, s)
         /\ (InInner(p) /\ Len(nest'[p]) < Len(nest[p])) =>
               LET s == Reraised(nest[p][Len(nest[p])])
               IN  s # "none" =>
                      \E k \in 1 .. Len(nest'[p]) : Holds(nest'[p], k, s)
         /\ (Len(nest[p]) = 1 /\ Len(nest'[p]) = 0) =>
               /\ nest[p][1].captured_sigterm
                     => delivered'[p] = Append(delivered[p], "SIGTERM")
               /\ (nest[p][1].captured_sigint /\ ~nest[p][1].captured_sigterm)
                     => delivered'[p] = Append(delivered[p], "SIGINT")]_vars

\* C21 witness: the one signal sent was captured by the handlers of an inner
\* block, and after the outermost block the handler installed before it has
\* received the signal.
C21_Witness ==
    \E p \in Procs :
        /\ pc[p] = "idle" /\ nest[p] = <<>> /\ sigCount[p] = 1
        /\ \E i \in Entries(p, "signal") :
              /\ hist[p][i].limit >= 2
              /\ delivered[p] = <<hist[p][i].body>>

\* ---------------------------------------------------------------- C22
\* Caller p's payload write of line 61 fails in this step.
WriteFailed(p) ==
    pc[p] = "se_write" /\ pc'[p] \notin {"se_write", "se_insert"}

\* Why it fails: what the step noted in the history, or the missing
\* collection.
FailureKind(p) ==
    IF hist'[p] # hist[p] THEN hist'[p][Len(hist'[p])].exc ELSE "missing"

\* No row is inserted and the stores stay as they are.
NothingStored(p) == table' = table /\ txn'[p] = txn[p] /\ docs' = docs

\* C22 as stated: in store_event a payload write that fails because the
\* collection does not exist is followed by provisioning the collection and
\* exactly one retry; a retry that fails propagates and no index row is
\* inserted; a payload write failing for any other reason propagates without
\* provisioning or retry.
C22_ProvisionOnlyWhenMissing ==
    [][\A p \in Procs :
         /\ (WriteFailed(p) /\ FailureKind(p) = "missing") => pc'[p] = "se_create"
         /\ (pc[p] = "se_create" /\ pc'[p] # "se_create") =>
               collExists' /\ pc'[p] = "se_retry"
         /\ (pc[p] = "se_retry" /\ pc'[p] # "se_retry") =>
               \/ pc'[p] = "se_insert" /\ docs'[se[p].event_uuid] = se[p].event
               \/ /\ pc'[p] = "idle" /\ NothingStored(p)
                  /\ hist'[p][Len(hist'[p])].ev = "store_event_raised"
         /\ (WriteFailed(p) /\ FailureKind(p) # "missing") =>
               /\ pc'[p] = "idle" /\ NothingStored(p)
               /\ collExists' = collExists
               /\ hist'[p][Len(hist'[p])].ev = "store_event_raised"]_vars

\* ---------------------------------------------------------------- C23
\* The consumer's bucket at time `now`: max_tokens without a stored record,
\* otherwise the stored tokens after the refills due since last_refill.
Bucket(doc, now) ==
    IF ~doc.exists THEN MaxTokens
    ELSE Min(MaxTokens,
             doc.tokens + ((now - doc.last_refill) \div RefillTime) * RefillAmount)

\* Caller p's consume returns the result of _consume in this step.
Decides(p) ==
    /\ Len(hist'[p]) = Len(hist[p]) + 1
    /\ hist'[p][Len(hist'[p])].ev = "consume"
    /\ hist'[p][Len(hist'[p])].exc = ""

\* C23: consume(consumer, amt) returns True exactly when the consumer's
\* bucket holds at least amt tokens, and the stored tokens are then the
\* bucket less amt; when it returns False for lack of tokens nothing is
\* deducted (the stored tokens are the bucket).
C23_ConsumeExact ==
    [][\A p \in Procs :
         Decides(p) =>
            LET e == hist'[p][Len(hist'[p])]
                b == Bucket(tokDoc, e.event_at)
            IN  /\ e.flag <=> b >= e.limit
                /\ tokDoc'.exists
                /\ e.flag => tokDoc'.tokens = b - e.limit
                /\ ~e.flag => tokDoc'.tokens = b]_vars

\* C23 witness: a call has consumed tokens and the next one was rejected
\* for lack of them.
C23_Witness ==
    \E p \in Procs :
        /\ Len(hist[p]) = 2 /\ pc[p] = "idle"
        /\ hist[p][1].ev = "consume" /\ hist[p][1].flag
        /\ hist[p][2].ev = "consume" /\ ~hist[p][2].flag /\ hist[p][2].exc = ""
        /\ tokDoc.exists /\ tokDoc.tokens < hist[p][2].limit

\* ---------------------------------------------------------------- C24
\* The amounts of the calls among the first i of history h that returned True.
RECURSIVE Granted(_, _)
Granted(h, i) ==
    IF i = 0 THEN 0
    ELSE Granted(h, i - 1)
         + (IF h[i].ev = "consume" /\ h[i].flag THEN h[i].limit ELSE 0)

\* What all callers together have been granted.
RECURSIVE GrantedTo(_)
GrantedTo(ps) ==
    IF ps = {} THEN 0
    ELSE LET p == CHOOSE q \in ps : TRUE
         IN  Granted(hist[p], Len(hist[p])) + GrantedTo(ps \ {p})

\* The tokens available so far to a consumer whose bucket was full when the
\* clock read MaxTime: the bucket and the refills since.
Available ==
    MaxTokens + ((clock - MaxTime) \div RefillTime) * RefillAmount

\* Caller p's write loses a race in this step.
LosesRace(p) == pc[p] = "rl_write" /\ pc'[p] \in {"rl_setup", "rl_sleep"}

\* C24: consume is concurrency-safe.  Whatever the interleaving of the
\* concurrent calls for one consumer, the amounts of the calls that returned
\* True add up to no more than the tokens available (the initial bucket and
\* the refills); a call whose compare_and_swap or create loses a race takes
\* nothing, returns nothing and reads the document again.
C24_ConcurrencySafe ==
    /\ [](GrantedTo(Procs) <= Available)
    /\ [][\A p \in Procs :
            /\ LosesRace(p) => tokDoc' = tokDoc /\ hist' = hist
            /\ (pc[p] = "rl_sleep" /\ pc'[p] # "rl_sleep")
                  => \/ pc'[p] = "rl_read"
                     \/ /\ rl[p].i = Attempts - 1
                        /\ ~hist'[p][Len(hist'[p])].flag]_vars

\* C24 witness: one caller lost the race for the document to the other and
\* both have returned, the loser from a later attempt.
C24_Witness ==
    \E p \in Procs : \E q \in Procs \ {p} :
        /\ pc[p] = "idle" /\ pc[q] = "idle"
        /\ Len(hist[p]) = 1 /\ Len(hist[q]) = 1
        /\ hist[p][1].flag /\ hist[q][1].exc = ""
        /\ tokDoc.rev >= 2
        /\ ~hist[q][1].flag /\ hist[q][1].limit <= MaxTokens

\* ---------------------------------------------------------------- C25
\* Entry e records a consume call with strict settings that was rejected
\* for lack of tokens.
StrictRejection(e) ==
    e.ev = "consume" /\ e.ctx = "strict" /\ ~e.flag /\ e.exc = ""

\* C25: with strict=True a consume attempt rejected for lack of tokens
\* resets the refill timer to the time of the attempt, and a retry made
\* less than refill_time_ms after a rejected attempt receives no refill and
\* is rejected in turn.
C25_StrictResetsTimer ==
    /\ [][\A p \in Procs :
            (Decides(p) /\ StrictRejection(hist'[p][Len(hist'[p])]))
               => tokDoc'.last_refill = hist'[p][Len(hist'[p])].event_at]_vars
    /\ [](\A p \in Procs : \A i \in 1 .. Len(hist[p]) - 1 :
            LET e == hist[p][i]
                f == hist[p][i + 1]
            IN  (/\ StrictRejection(e)
                 /\ f.ev = "consume" /\ f.ctx = "strict" /\ f.exc = ""
                 /\ f.limit >= e.limit
                 /\ f.event_at - e.event_at < RefillTime)
                   => StrictRejection(f) /\ f.after = e.after)

\* C25 witness: a rejected strict attempt whose bucket had been waiting for
\* a refill for some time was retried before a whole refill time had gone
\* by since the attempt, and rejected.
C25_Witness ==
    \E p \in Procs :
        /\ Len(hist[p]) = 2 /\ pc[p] = "idle"
        /\ StrictRejection(hist[p][1]) /\ StrictRejection(hist[p][2])
        /\ hist[p][2].limit = hist[p][1].limit
        /\ hist[p][2].limit <= MaxTokens
        /\ hist[p][2].event_at = hist[p][1].event_at + RefillTime - 1
        /\ tokDoc.exists /\ tokDoc.last_refill = hist[p][2].event_at

\* ---------------------------------------------------------------- C26
\* C26: when handle(T) returns, at least T seconds have gone by since the
\* start recorded before it (the one the previous call to handle recorded);
\* it has slept only when fewer than T seconds had gone by.
C26_SleepsAsNeeded ==
    \A p \in Procs : \A i \in Entries(p, "handle") :
        LET e == hist[p][i]
        IN  e.exc = "" =>
               /\ e.event_at - e.before >= e.limit
               /\ e.flag <=> e.after < e.limit
               /\ i > 1 => e.before = hist[p][i - 1].ret

\* C26 witness: a call that found too recent a start has slept and returned.
C26_Witness ==
    \E p \in Procs : \E i \in Entries(p, "handle") :
        /\ hist[p][i].exc = "" /\ hist[p][i].flag
        /\ hist[p][i].event_at - hist[p][i].before = hist[p][i].limit

\* ---------------------------------------------------------------- C27
\* C27 as stated: when no previous start is recorded (no state file),
\* handle(T) returns without sleeping and without raising, and records the
\* current time as the last start.
C27_FirstRunReturns ==
    \A p \in Procs : \A i \in Entries(p, "handle") :
        hist[p][i].before = NoTime =>
            /\ hist[p][i].exc = ""
            /\ ~hist[p][i].flag
            /\ hist[p][i].ret # NoTime

\* ---------------------------------------------------------------- C28
IndexStep(p) == pc[p] \in {"ie_select", "ie_read", "ie_delete", "ie_commit"}

\* The selected rows index_events has read so far and found without document.
ReadAbsent(p) ==
    {ie[p].unaugmented[k][1] :
        k \in {j \in 1 .. Len(ie[p].unaugmented) :
                  j <= ie[p].i /\ docs[ie[p].unaugmented[j][1]] = NoDoc}}

\* C28: index_events claims nothing.  No step of it changes the documents;
\* a step removes an index row only under 'delete_and_commit' and only the
\* row whose document it has just read as absent, and its commit removes
\* only such rows; with 'include', or when every selected row has its
\* document, rows, pending statements and committed ids stay as they were
\* (nothing is committed).
C28_IndexClaimsNothing ==
    [][\A p \in Procs : IndexStep(p) =>
          /\ docs' = docs /\ collExists' = collExists
          /\ \A r \in Visible(p) \ VisibleNext(p) :
                /\ ie[p].integrity_failures = "delete_and_commit"
                /\ pc[p] = "ie_delete"
                /\ r.uuid = ie[p].unaugmented[ie[p].i][1]
                /\ r.uuid \in ReadAbsent(p)
          /\ \A r \in table \ table' :
                /\ ie[p].integrity_failures = "delete_and_commit"
                /\ r.uuid \in ReadAbsent(p)
          /\ (\/ ie[p].integrity_failures = "include"
              \/ \A k \in 1 .. Len(ie[p].unaugmented) :
                    docs[ie[p].unaugmented[k][1]] # NoDoc)
                => table' = table /\ stored' = stored /\ txn' = txn]_vars

\* C28 witness: with an insert pending, a 'delete_and_commit' call that
\* selected two rows has returned one of them; the other row is gone from
\* the index and the returned one is still there with its document.
C28_Witness ==
    \E p \in Procs : \E i \in Entries(p, "index_events") :
        LET e == hist[p][i]
        IN  /\ i = Len(hist[p]) /\ pc[p] = "idle" /\ e.exc = ""
            /\ e.ctx = "delete_and_commit"
            /\ Len(e.selected) = 2 /\ Len(e.result) = 1
            /\ \E k \in 1 .. 2 :
                  /\ e.selected[k][1] # e.result[1][1]
                  /\ \A r \in table : r.uuid # e.selected[k][1]
            /\ \E r \in table : r.uuid = e.result[1][1]
            /\ docs[e.result[1][1]] # NoDoc
            /\ txn[p] = NoTxn

\* ---------------------------------------------------------------- C29
\* C29: once handler has failed for an event, the events selected after it
\* by the same consume_events call are never claimed nor handed to handler
\* (no delete_event, handler or rollback for them), and their index rows and
\* documents stay as this call found them.
C29_FailureAbortsBatch ==
    \A p \in Procs : \A i \in Entries(p, "handler_raised") :
        LET b == Batch(p)
        IN  \A k, j \in 1 .. Len(b) :
               (b[k][1] = hist[p][i].uuid /\ j > k) =>
                  /\ \A n \in 1 .. Len(hist[p]) : hist[p][n].uuid # b[j][1]
                  /\ de[p].event_uuid # b[j][1]
                  /\ \E r \in table : r.uuid = b[j][1] /\ r.event_at = b[j][2]
                  /\ \A r \in txn[p].del : r.uuid # b[j][1]
                  /\ docs[b[j][1]] = b[j][3] /\ b[j][3] # NoDoc

\* C29 witness: consume_events has returned with the failure of handler for
\* the first of two selected events, the event being stored again.
C29_Witness ==
    \E p \in Procs :
        /\ pc[p] = "idle" /\ Len(Batch(p)) = 2
        /\ hist[p][Len(hist[p])].ev = "consume_events"
        /\ hist[p][Len(hist[p])].exc = "handler failed"
        /\ hist[p][Len(hist[p])].uuid = Batch(p)[1][1]
        /\ docs[Batch(p)[2][1]] # NoDoc

\* ---------------------------------------------------------------- C30
\* C30: while handler runs for an event, the consumer's own delete_event for
\* it has returned True with commit=True just before: the consumer has no
\* open transaction, no consumer sees an index row of the event, and its
\* document is gone.  handler is entered only after such a delete_event,
\* never after one that returned False.
C30_ClaimCommittedFirst ==
    \A p \in Procs : pc[p] = "in_handler" =>
        LET n == Len(hist[p])
            u == CurEvent(p)[1]
        IN  /\ n >= 2
            /\ hist[p][n].ev = "handler" /\ hist[p][n].uuid = u
            /\ hist[p][n - 1].ev = "delete_event" /\ hist[p][n - 1].uuid = u
            /\ hist[p][n - 1].flag /\ hist[p][n - 1].ctx = "commit"
            /\ txn[p] = NoTxn
            /\ \A q \in Procs : \A r \in Visible(q) : r.uuid # u
            /\ docs[u] = NoDoc

\* C30 witness: handler runs for an event that another consumer, still at
\* work, has selected as well.
C30_Witness ==
    \E p \in Procs : \E q \in Procs \ {p} :
        /\ pc[p] = "in_handler"
        /\ pc[q] \in {"de_delete", "de_commit", "de_force"}
        /\ \E k \in 1 .. Len(ce[q].past_due_events) :
              ce[q].past_due_events[k][1] = CurEvent(p)[1]

\* ---------------------------------------------------------------- C31
\* The events whose delete_event, called by p, has returned True.
Claimed(p) ==
    {hist[p][i].uuid : i \in {j \in Entries(p, "delete_event") : hist[p][j].flag}}

\* C31: a claim is committed when delete_event returns, before handler
\* starts: from then on no other consumer sees an index row of the event,
\* and a SELECT of index_events run by another consumer from then on does
\* not contain it, whatever the claiming consumer is doing meanwhile.
C31_ClaimVisibleAtOnce ==
    /\ [](\A p \in Procs : \A q \in Procs \ {p} : \A r \in Visible(q) :
             r.uuid \notin Claimed(p))
    /\ [][\A q \in Procs :
             (pc[q] = "ie_select" /\ pc'[q] = "ie_read") =>
                \A k \in 1 .. Len(ie'[q].unaugmented) : \A p \in Procs \ {q} :
                   ie'[q].unaugmented[k][1] \notin Claimed(p)]_vars

\* C31 witness: while one consumer runs handler for the first event of its
\* batch of two, the other has selected fewer rows than its limit, the
\* second event but not the first.
C31_Witness ==
    \E p \in Procs : \E q \in Procs \ {p} :
        /\ pc[p] = "in_handler" /\ ce[p].i = 1 /\ Len(ce[p].past_due_events) = 2
        /\ pc[q] = "ie_read"
        /\ Len(ie[q].unaugmented) < ie[q].limit
        /\ \E k \in 1 .. Len(ie[q].unaugmented) :
              ie[q].unaugmented[k][1] = ce[p].past_due_events[2][1]
        /\ \A k \in 1 .. Len(ie[q].unaugmented) :
              ie[q].unaugmented[k][1] # CurEvent(p)[1]

\* ---------------------------------------------------------------- C32
\* The uuids store_event has drawn.
Fresh == (MaxInit + 1) .. (nextUuid - 1)

\* C32: store_event writes the document before it inserts the row: every
\* index row of a uuid drawn by store_event, pending or committed, has its
\* document; and no step of a concurrent index_events removes such a row,
\* from its own view or from the committed table (no delete_event runs and
\* no document expires here).
C32_PayloadBeforeRow ==
    /\ [](\A p \in Procs : \A r \in table \cup txn[p].ins :
             r.uuid \in Fresh => docs[r.uuid] # NoDoc)
    /\ [][\A q \in Procs : IndexStep(q) =>
             /\ (pc[q] = "ie_delete" => ie[q].unaugmented[ie[q].i][1] \notin Fresh)
             /\ \A r \in table \ table' : r.uuid \notin Fresh]_vars

\* C32 witness: a 'delete_and_commit' call has returned the event the other
\* caller stored and committed meanwhile, after deleting a row without
\* document.
C32_Witness ==
    /\ Len(hist[2]) = 1 /\ hist[2][1].ev = "index_events"
    /\ hist[2][1].ctx = "delete_and_commit"
    /\ Len(hist[2][1].result) < Len(hist[2][1].selected)
    /\ \E k \in 1 .. Len(hist[2][1].result) : hist[2][1].result[k][1] \in Fresh
    /\ \E r \in table : r.uuid \in Fresh

\* ---------------------------------------------------------------- C33
\* C33: when store_event(..., commit) has returned, its row is committed
\* exactly when commit is true, and then a rollback of the caller's
\* connection does not remove it.  With commit=False the row is pending in
\* the caller's transaction only: no other connection sees or selects it,
\* and once the caller rolls back no row of the event is left anywhere
\* while its document stays in the collection.
C33_CommitFlag ==
    \A p \in Procs : \A i \in Entries(p, "store_event") :
        LET e == hist[p][i]
            row == Row(e.uuid, e.queue_type, e.event_at)
            rolledBack == \E j \in Entries(p, "conn_rollback") : j > i
        IN  /\ docs[e.uuid] = e.body
            /\ e.flag => row \in table /\ e.uuid \in stored /\ txn[p] = NoTxn
            /\ ~e.flag =>
                  /\ row \notin table /\ e.uuid \notin stored
                  /\ row \in txn[p].ins <=> ~rolledBack
                  /\ \A q \in Procs \ {p} :
                        /\ \A r \in Visible(q) : r.uuid # e.uuid
                        /\ \A k \in 1 .. Len(ie[q].unaugmented) :
                              ie[q].unaugmented[k][1] # e.uuid
                        /\ \A j \in Entries(q, "index_events") :
                              \A k \in 1 .. Len(hist[q][j].selected) :
                                 hist[q][j].selected[k][1] # e.uuid

\* C33 witness: an event stored with commit=False was rolled back by its
\* caller; its document is an orphan, and the other caller's 'include' read
\* of the whole index has returned without it.
C33_Witness ==
    /\ Len(hist[1]) = 2 /\ hist[1][1].ev = "store_event" /\ ~hist[1][1].flag
    /\ hist[1][2].ev = "conn_rollback"
    /\ docs[hist[1][1].uuid] # NoDoc
    /\ Len(hist[2]) = 1 /\ hist[2][1].ctx = "include"
    /\ hist[2][1].limit > Len(hist[2][1].result)

\* ---------------------------------------------------------------- C34
\* C34: consume_events consumes due events of its queue only.  Every event
\* handed to handler is one index_events returned for the requested queue
\* type, with event_at strictly before the `now` of the call; handler is
\* entered at most `limit` times; and no step of the call removes the row
\* or changes the document of an event of another queue type or with
\* event_at at or after `now` (the clock reading of the call).
C34_OnlyDueEvents ==
    /\ [](\A p \in Procs : \A i \in Entries(p, "handler") :
             LET h == hist[p][i]
                 e == hist[p][CHOOSE j \in Entries(p, "index_events") : TRUE]
             IN  /\ h.queue_type = hist[p][1].queue_type
                 /\ e.queue_type = hist[p][1].queue_type
                 /\ e.before = clock /\ h.event_at < e.before
                 /\ \E k \in 1 .. Len(e.result) :
                       e.result[k] = <<h.uuid, h.event_at, h.body>>
                 /\ Cardinality(Entries(p, "handler")) <= hist[p][1].limit)
    /\ [][\A p \in Procs : pc[p] # "idle" =>
             \A r \in table :
                (r.queue_type # ce[p].queue_type \/ r.event_at >= clock)
                   => r \in table' /\ docs'[r.uuid] = docs[r.uuid]]_vars

\* C34 witness: the call has handled one event and returned with room left
\* in its limit, leaving alone an event of its queue that is due exactly at
\* `now`.
C34_Witness ==
    \E p \in Procs :
        /\ pc[p] = "idle" /\ Len(hist[p]) > 0
        /\ hist[p][Len(hist[p])].ev = "consume_events"
        /\ Cardinality(Entries(p, "handler")) = 1
        /\ hist[p][1].limit > 1
        /\ \E r \in table :
              r.event_at = clock /\ r.queue_type = hist[p][1].queue_type
              /\ docs[r.uuid] # NoDoc

\* ---------------------------------------------------------------- C35
\* Rows of the queue read (QUEUE_TYPES) whose document is missing / is there.
FailureRows == {r \in table : r.queue_type \in QUEUE_TYPES /\ docs[r.uuid] = NoDoc}
ValidRows == {r \in table : r.queue_type \in QUEUE_TYPES /\ docs[r.uuid] # NoDoc}

\* The valid events lie behind the integrity failures in the order read.
FailuresFirst ==
    /\ ValidRows # {}
    /\ \A f \in FailureRows : \A v \in ValidRows : f.event_at < v.event_at

\* No integrity failure is left and a call has returned valid events only,
\* as many as its limit allows.
Healed ==
    /\ FailureRows = {}
    /\ \E i \in Entries(1, "index_events") :
          /\ Len(hist[1][i].result) = Len(hist[1][i].selected)
          /\ Len(hist[1][i].result) = Min(hist[1][i].limit, Cardinality(ValidRows))

\* C35: when the valid events lie behind the rows without document, then
\* after finitely many 'delete_and_commit' calls (at most one per row) no
\* such row is left and a call has returned the valid events, up to limit.
C35_FailuresResolve == FailuresFirst => <>[]Healed

\* C35 witness: a call that returned nothing but deleted a row without
\* document was followed by a call that returned a valid event.
C35_Witness ==
    /\ Healed /\ Len(hist[1]) = 2 /\ pc[1] = "idle"
    /\ hist[1][1].result = <<>> /\ Len(hist[1][1].selected) = 1
    /\ Len(hist[1][2].result) = 1

\* ---------------------------------------------------------------- C36
\* C36: a consume that finds a stored record writes back
\* min(max_tokens, stored + floor(elapsed / refill_time) * refill_amount)
\* tokens, less amt when it grants; last_refill moves on by that number of
\* whole refill times, so that the rest of a started interval (less than
\* one refill time) still counts for the next call; only a rejection under
\* strict settings sets last_refill to the time of the call.
C36_RefillFormula ==
    [][\A p \in Procs :
         (Decides(p) /\ tokDoc.exists) =>
            LET e == hist'[p][Len(hist'[p])]
                elapsed == e.event_at - tokDoc.last_refill
                n == elapsed \div RefillTime
                full == Min(MaxTokens, tokDoc.tokens + n * RefillAmount)
            IN  /\ elapsed >= 0
                /\ tokDoc'.tokens = IF e.flag THEN full - e.limit ELSE full
                /\ IF ~e.flag /\ e.ctx = "strict"
                      THEN tokDoc'.last_refill = e.event_at
                      ELSE /\ tokDoc'.last_refill = tokDoc.last_refill + n * RefillTime
                           /\ e.event_at - tokDoc'.last_refill = elapsed % RefillTime]_vars

\* C36 witness: without strict, a call rejected in the middle of a refill
\* interval is followed, at the end of that interval, by a call that is
\* granted the same amount.
C36_Witness ==
    \E p \in Procs :
        /\ Len(hist[p]) = 2 /\ pc[p] = "idle"
        /\ hist[p][1].ev = "consume" /\ hist[p][1].exc = "" /\ hist[p][2].exc = ""
        /\ hist[p][1].ctx = "" /\ ~hist[p][1].flag
        /\ hist[p][2].ctx = "" /\ hist[p][2].flag
        /\ hist[p][2].limit = hist[p][1].limit
        /\ hist[p][2].event_at - hist[p][1].event_at < RefillTime
        /\ tokDoc.exists /\ tokDoc.last_refill = hist[p][2].event_at

\* ---------------------------------------------------------------- C37
\* C37: handler is entered at most once for any event uuid, whichever the
\* consumer and also after handler failures: the uuid under which a failed
\* event is stored again was never used before, neither by an initial event
\* nor by another store_event.
C37_HandlerOncePerId ==
    /\ \A p, q \in Procs :
          \A i \in Entries(p, "handler") : \A j \in Entries(q, "handler") :
             hist[p][i].uuid = hist[q][j].uuid => p = q /\ i = j
    /\ \A p, q \in Procs :
          \A i \in Entries(p, "store_event") :
             /\ hist[p][i].uuid \notin InitUuids
             /\ \A j \in Entries(q, "store_event") :
                   hist[p][i].uuid = hist[q][j].uuid => p = q /\ i = j

\* C37 witness: handler failed for an event of one consumer, the event was
\* stored again, and the other consumer's handler got it under the new uuid.
C37_Witness ==
    \E p \in Procs : \E q \in Procs \ {p} :
        \E i \in Entries(p, "store_event") : \E j \in Entries(q, "handler") :
            /\ hist[q][j].uuid = hist[p][i].uuid
            /\ hist[p][i - 1].ev = "rollback"
            /\ hist[p][i - 1].uuid # hist[p][i].uuid

\* ---------------------------------------------------------------- C38
\* The pairs <<old uuid, new uuid>> of the events consume_events has stored
\* again: a rollback entry and the store_event entry that follows it.
Requeues ==
    UNION {{<<hist[p][i - 1].uuid, hist[p][i].uuid>> :
               i \in Entries(p, "store_event")} : p \in Procs}

\* For every uuid in use, the initial event it carries on (NoUuid for a
\* uuid just drawn, whose store_event has not returned).
Origins ==
    LET rq == Requeues
        org[u \in 1 .. (nextUuid - 1)] ==
            IF u \in InitUuids THEN u
            ELSE LET S == {x \in rq : x[2] = u}
                 IN  IF S = {} THEN NoUuid ELSE org[(CHOOSE x \in S : TRUE)[1]]
    IN  org

\* The uuids under which event o is live: a committed row with its document.
LiveIds(org, o) ==
    {r.uuid : r \in {x \in table : org[x.uuid] = o /\ docs[x.uuid] # NoDoc}}

\* The consumers holding event o: from the commit of their claim to the
\* return of handler, or to the commit of the store_event that requeues it.
Holders(org, o) ==
    {p \in Procs :
        \/ pc[p] = "de_force" /\ de[p].success /\ org[de[p].event_uuid] = o
        \/ /\ pc[p] \in {"ds_sigint", "ds_sigterm", "in_handler", "ce_rollback",
                         "se_write", "se_insert", "se_commit"}
           /\ org[CurEvent(p)[1]] = o}

\* The successful handler runs of event o, as <<consumer, history entry>>.
Completions(org, o) ==
    UNION {{<<p, i>> : i \in {j \in Entries(p, "handler_ok") :
                                 org[hist[p][j].uuid] = o}} : p \in Procs}

\* C38: while rollback and store_event succeed and nobody is killed, every
\* event of the initial queue is in exactly one situation: live under one
\* uuid, held by one consumer, or completed once.
C38_EventConserved ==
    LET org == Origins
    IN  \A o \in InitUuids : o \in stored =>
            Cardinality(LiveIds(org, o)) + Cardinality(Holders(org, o))
                + Cardinality(Completions(org, o)) = 1

\* C38 witness: an event whose handler failed is live again under a new
\* uuid while the consumer that stored it is still leaving its call, and
\* the other event of the queue is completed.
C38_Witness ==
    \E o \in InitUuids : \E u \in LiveIds(Origins, o) :
        /\ u # o
        /\ \E p \in Procs : pc[p] \in {"ds_restore_int", "ds_restore_term", "ds_callback"}
        /\ \E o2 \in InitUuids \ {o} : Completions(Origins, o2) # {}

\* ---------------------------------------------------------------- C39
\* C39: delay_signals puts the handlers back.  When callback() runs at the
\* end of a block (the body returned or raised, the finally clause is the
\* same), both signals have the handlers of before the block: those of the
\* enclosing block, or the original ones; they are still installed once the
\* block is left, and a signal re-raised by the outermost block is received
\* by the original handler.
C39_HandlersRestored ==
    /\ [](\A p \in Procs : \A s \in Signals :
             /\ pc[p] = "nd_callback" => sigH[p][s] = Len(nest[p]) - 1
             /\ pc[p] \in {"idle", "nd_body"} => sigH[p][s] = Len(nest[p]))
    /\ [][\A p \in Procs :
             (pc[p] = "nd_callback" /\ pc'[p] # "nd_callback" /\ Len(nest[p]) = 1
                 /\ Reraised(nest[p][1]) # "none")
                => delivered'[p] = Append(delivered[p], Reraised(nest[p][1]))]_vars

\* C39 witness: an inner block that had captured a signal has been left;
\* the enclosing block's handlers are installed again and have captured the
\* re-raised signal, nothing having reached the original handler.
C39_Witness ==
    \E p \in Procs :
        /\ pc[p] = "nd_body" /\ Len(nest[p]) = 1 /\ calls[p] = MaxDepth - 1
        /\ sigH[p]["SIGINT"] = 1 /\ sigH[p]["SIGTERM"] = 1
        /\ Len(hist[p]) = 1 /\ hist[p][1].limit = 2
        /\ nest[p][1].captured_sigint \/ nest[p][1].captured_sigterm
        /\ delivered[p] = <<>>

\* ---------------------------------------------------------------- C40
\* C40: whatever consume calls were made before, by either caller and with
\* whatever max_tokens, a call (amt >= 0) that writes the consumer's record
\* leaves in it a number of tokens between 0 and the max_tokens of its own
\* settings; the stored number changes in no other step, and is never
\* negative.
C40_TokensInRange ==
    /\ [](tokDoc.tokens >= 0)
    /\ [][\A p \in Procs :
             Decides(p) =>
                /\ rl[p].amt >= 0
                /\ tokDoc'.exists
                /\ 0 <= tokDoc'.tokens /\ tokDoc'.tokens <= rl[p].max_tokens]_vars
    /\ [][(tokDoc'.exists /\ tokDoc'.tokens # tokDoc.tokens)
             => \E p \in Procs : Decides(p)]_vars

\* C40 witness: a record written with the larger max_tokens was rewritten
\* by the other caller under a smaller max_tokens, and holds that many.
C40_Witness ==
    \E p \in Procs : \E q \in Procs \ {p} :
        /\ Len(hist[p]) = 1 /\ Len(hist[q]) = 1
        /\ hist[p][1].exc = "" /\ hist[q][1].exc = ""
        /\ hist[p][1].after > hist[q][1].before
        /\ hist[p][1].event_at <= hist[q][1].event_at
        /\ ~hist[q][1].flag
        /\ tokDoc.exists /\ tokDoc.rev = 2 /\ tokDoc.tokens = hist[q][1].before

====
